---- MODULE Spec2Model ----
(***************************************************************************)
(* State-machine model of the skychat-xterm session broker:                *)
(*   - PtyManager (app/server/services/PtyManager.ts): the session         *)
(*     registry, one PTY process per normalized username;                  *)
(*   - the terminal WebSocket relay (setupTerminalWebSocket);              *)
(*   - the username validation helpers (app/server/utils/security.ts).     *)
(*                                                                         *)
(* Node.js runs every handler to completion on one thread, so each public  *)
(* method call and each event-listener dispatch is one atomic action.      *)
(***************************************************************************)
EXTENDS Integers, Sequences, FiniteSets, TLC

\* ------------------------------------------------------------------ bounds
MaxSpawns == 2      \* PTY processes that are ever spawned
MaxTime   == 2      \* last value of the clock (Date.now(), abstract ticks)
MaxCalls  == 1      \* viewer messages that reach a PTY or are answered
MaxSockets  == 3    \* WebSocket objects a page ever creates
MaxAttempts == 6    \* last value of reconnectAttempts

\* ------------------------------------------------- usernames (security.ts)
\* A string is a sequence of one-character tokens.
LowerChars == {"a", "b", "c", "e", "i", "l", "o"}
UpperChars == {"A", "B"}
SpaceChars == {" "}

UsernameMaxLength == 32

\* String.prototype.toLowerCase on one character
ToLowerChar(c) ==
    CASE c = "A" -> "a"
      [] c = "B" -> "b"
      [] OTHER   -> c

ToLowerCase(s) == [i \in 1..Len(s) |-> ToLowerChar(s[i])]

RECURSIVE TrimStart(_)
TrimStart(s) ==
    IF s # <<>> /\ Head(s) \in SpaceChars THEN TrimStart(Tail(s)) ELSE s

RECURSIVE TrimEnd(_)
TrimEnd(s) ==
    IF s # <<>> /\ s[Len(s)] \in SpaceChars
    THEN TrimEnd(SubSeq(s, 1, Len(s) - 1))
    ELSE s

\* String.prototype.trim
Trim(s) == TrimEnd(TrimStart(s))

\* String.prototype.includes for a two-character needle
IncludesPair(s, c1, c2) ==
    \E i \in 1..(Len(s) - 1) : s[i] = c1 /\ s[i + 1] = c2

IncludesChar(s, c) == \E i \in 1..Len(s) : s[i] = c

\* USERNAME_REGEX = /^[a-z0-9_-]{1,32}$/
USERNAME_REGEX(s) ==
    /\ Len(s) >= 1
    /\ Len(s) <= UsernameMaxLength
    /\ \A i \in 1..Len(s) : s[i] \in LowerChars \cup {"0", "1", "_", "-"}

\* the value validateAndNormalizeUsername computes before its checks
NormalizedForm(username) == ToLowerCase(Trim(username))

\* validateAndNormalizeUsername with its length checks only
UsernameThrowsLengthOnly(username) ==
    LET normalized == NormalizedForm(username) IN
    Len(normalized) = 0 \/ Len(normalized) > UsernameMaxLength

\* TRUE when validateAndNormalizeUsername throws
UsernameThrows(username) ==
    LET normalized == NormalizedForm(username) IN
    \/ Len(normalized) = 0
    \/ Len(normalized) > UsernameMaxLength
    \/ ~USERNAME_REGEX(normalized)
    \/ normalized = <<".">>
    \/ normalized = <<".", ".">>
    \/ IncludesPair(normalized, ".", ".")

\* the value validateAndNormalizeUsername returns (when it does not throw)
ValidateAndNormalizeUsername(username) == NormalizedForm(username)

\* TRUE when validatePathComponent throws ("0" stands for no NUL here: the
\* alphabet has no NUL character)
PathComponentThrows(input) ==
    \/ IncludesPair(input, ".", ".")
    \/ IncludesChar(input, "/")
    \/ IncludesChar(input, "\\")
    \/ input = <<".">>
    \/ input = <<".", ".">>

\* ------------------------------------------------------------ input sets
Alice    == <<"a", "l", "i", "c", "e">>
Bob      == <<"b", "o", "b">>
AliceRaw == <<"A", "l", "i", "c", "e", " ">>
DotDot   == <<".", ".">>

\* raw usernames: two that normalize to "alice", one other user, one that
\* does not validate
RawUsernames   == {Alice, AliceRaw, Bob, DotDot}
AliceUsernames == {Alice, AliceRaw, DotDot}
TwoUsernames   == {AliceRaw, Bob}

\* every string of at most two characters over a small alphabet
RawChars == {"a", "A", " ", ".", "/"}
RawInputs == {<<>>} \cup {<<c>> : c \in RawChars}
             \cup {<<c, d>> : c \in RawChars, d \in RawChars}

\* the WebSocket objects (browser tabs) that exist
Viewers  == {"tab1", "tab2"}
OneViewer == {"tab1"}

\* idle timeouts handed to cleanupInactiveSessions, in clock ticks
Timeouts == {1}
ExitCodes == {0, 1}

\* what a call that throws, and a void call that returns, leave in ret.val
Throw == -1
Void  == 0

\* ---------------------------------------------------- Map<string, PtySession>
\* A JavaScript Map keeps insertion order: a sequence of entries
\* [username, pty, created, lastActivity, subscribers].
MapIndex(map, k) ==
    IF \E i \in 1..Len(map) : map[i].username = k
    THEN CHOOSE i \in 1..Len(map) :
            /\ map[i].username = k
            /\ \A j \in 1..(i - 1) : map[j].username # k
    ELSE 0

MapHas(map, k) == MapIndex(map, k) # 0

MapGet(map, k) == map[MapIndex(map, k)]

MapSet(map, k, v) ==
    IF MapHas(map, k)
    THEN [map EXCEPT ![MapIndex(map, k)] = v]
    ELSE Append(map, v)

MapDelete(map, k) ==
    LET i == MapIndex(map, k) IN
    IF i = 0 THEN map
    ELSE SubSeq(map, 1, i - 1) \o SubSeq(map, i + 1, Len(map))

MapKeys(map) == [i \in 1..Len(map) |-> map[i].username]

\* Array.prototype.includes / indexOf on the subscribers array
ArrayIncludes(arr, x) == \E i \in 1..Len(arr) : arr[i] = x

ArrayIndexOf(arr, x) ==
    IF ArrayIncludes(arr, x)
    THEN CHOOSE i \in 1..Len(arr) :
            /\ arr[i] = x
            /\ \A j \in 1..(i - 1) : arr[j] # x
    ELSE 0

\* arr.splice(index, 1)
ArraySplice(arr, i) == SubSeq(arr, 1, i - 1) \o SubSeq(arr, i + 1, Len(arr))

\* -------------------------------------------------------------------- state
VARIABLES
    sessions,    \* PtyManager.sessions: the Map, in insertion order
    ptys,        \* every PTY ever spawned, by pid: [username, status, the
                 \* 'data' and 'exit' listeners of the relay, the write and
                 \* resize calls it has received, the output it has emitted,
                 \* the kill calls it has received]
    readyState,  \* WebSocket.readyState of every WebSocket object
    sent,        \* per WebSocket, the messages ws.send() has put on the wire
    conn,        \* per WebSocket, the closure of its relay connection handler
    phase,       \* "up", or "down" once the server's shutdown() has run
    now,         \* Date.now()
    ret,         \* the last call or event and what it returned
    scn,         \* history: how many steps of the two-tab scenario have
                 \* been taken (ScenarioSpec); the time of the last detach
                 \* of a viewer (ReaperSpec)
    client       \* the browser page: the module variables of websocket.ts,
                 \* its WebSocket objects, its timers and its stored
                 \* authentication

vars == <<sessions, ptys, readyState, sent, conn, phase, now, ret, scn,
          client>>

\* the page after its scripts have loaded, with authentication stored and
\* 'auth-ready' not yet dispatched (ready): no
\* socket (ws and terminalWS are 0 for null, otherwise the number of a
\* WebSocket object in socks), no timer (timers holds the delay of each
\* pending callback of scheduleReconnect; reconnectTimeout is 0 for null,
\* otherwise a handle into timers), nothing displayed
ClientInit ==
    [ws |-> 0, terminalWS |-> 0, socks |-> <<>>,
     reconnectAttempts |-> 0, reconnectTimeout |-> 0, timers |-> <<>>,
     sizeTimers |-> 0, auth |-> TRUE, ready |-> FALSE, loaded |-> TRUE,
     status |-> ""]

\* the part of the state the handlers thread through their calls
Cur == [sessions |-> sessions, ptys |-> ptys,
        readyState |-> readyState, sent |-> sent, conn |-> conn]

Commit(m) ==
    /\ sessions' = m.sessions
    /\ ptys' = m.ptys
    /\ readyState' = m.readyState
    /\ sent' = m.sent
    /\ conn' = m.conn

\* JavaScript values a message field can hold: undefined, a number (n is
\* twice the number, so that halves are representable), a string (n is its
\* length)
Undefined == [kind |-> "undefined", n |-> 0]
Num2(twice) == [kind |-> "number", n |-> twice]
Str(length) == [kind |-> "string", n |-> length]

\* a message of a viewer, parsed; type is "malformed" for a message
\* JSON.parse rejects
ViewerMessage(type, data, cols, rows) ==
    [type |-> type, data |-> data, cols |-> cols, rows |-> rows]
NoMessage == ViewerMessage("", Undefined, Undefined, Undefined)

\* [op: the method or event; arg: "forceNew" or "default" for getOrCreate,
\* the WebSocket for 'message'; pre: what the call found, "session" or "none"
\* for getOrCreate, the status of the process for 'exit'; val: what the call
\* returned (a pid or a count, Void, Throw), for 'exit', 'data' and
\* 'message' the pid of the process; msg: the message of a 'message' event]
Ret(op, arg, pre, val) ==
    [op |-> op, arg |-> arg, pre |-> pre, val |-> val, msg |-> NoMessage]

\* ------------------------------------------------------------ ws library
\* ws.send(): the message goes out only on an OPEN socket
WsSend(m, w, msg) ==
    IF m.readyState[w] = "OPEN"
    THEN [m EXCEPT !.sent[w] = Append(@, msg)]
    ELSE m

\* ws.close(): an OPEN socket starts its closing handshake; the 'close'
\* event is emitted later, never inside the call
WsClose(m, w) ==
    IF m.readyState[w] = "OPEN"
    THEN [m EXCEPT !.readyState[w] = "CLOSING"]
    ELSE m

\* ---------------------------------------------------------------- node-pty
\* pty.kill() inside the try/catch of cleanupSession: signals a running
\* process; the 'exit' event is emitted later. On a process that is already
\* gone the call signals nothing, and on a process whose kill throws
\* (killThrows) the error is caught and logged and the process is left as it
\* was. kills counts the calls.
PtyKill(m, p) ==
    LET m1 == [m EXCEPT !.ptys[p].kills = @ + 1] IN
    IF m.ptys[p].killThrows THEN m1
    ELSE IF m.ptys[p].status = "running"
    THEN [m1 EXCEPT !.ptys[p].status = "killed"]
    ELSE m1

\* a process nobody has signalled and that has not exited
Live(p) == ptys[p].status = "running"

\* ---------------------------------------------------------------- PtyManager
ExitMsg(code) == [type |-> "exit", code |-> code]

\* the forEach callback of cleanupSession without its ws.close()
NotifySubscriberNoClose(m, w) ==
    IF m.readyState[w] = "OPEN"
    THEN WsSend(m, w, ExitMsg(0))
    ELSE m

\* the body of the forEach callback of cleanupSession, for one subscriber
NotifySubscriber(m, w) ==
    IF m.readyState[w] = "OPEN"
    THEN WsClose(WsSend(m, w, ExitMsg(0)), w)
    ELSE m

RECURSIVE NotifySubscribers(_, _)
NotifySubscribers(m, subs) ==
    IF subs = <<>> THEN m
    ELSE NotifySubscribers(NotifySubscriber(m, Head(subs)), Tail(subs))

\* cleanupSession without its pty.kill()
CleanupSessionNoKill(m, username) ==
    LET normalizedUsername == ValidateAndNormalizeUsername(username) IN
    IF ~MapHas(m.sessions, normalizedUsername) THEN m
    ELSE
        LET session == MapGet(m.sessions, normalizedUsername)
            m1 == NotifySubscribers(m, session.subscribers)
        IN [m1 EXCEPT !.sessions = MapDelete(@, normalizedUsername)]

\* cleanupSession without the try/catch: a throw of kill() leaves it before
\* sessions.delete
CleanupSessionKillEscalates(m, username) ==
    LET normalizedUsername == ValidateAndNormalizeUsername(username) IN
    IF ~MapHas(m.sessions, normalizedUsername) THEN m
    ELSE
        LET session == MapGet(m.sessions, normalizedUsername)
            m1 == NotifySubscribers(m, session.subscribers)
            m2 == PtyKill(m1, session.pty)
        IN IF m.ptys[session.pty].killThrows THEN m2
           ELSE [m2 EXCEPT !.sessions = MapDelete(@, normalizedUsername)]

\* cleanupSession(username), for a username that validates
CleanupSession(m, username) ==
    LET normalizedUsername == ValidateAndNormalizeUsername(username) IN
    IF ~MapHas(m.sessions, normalizedUsername) THEN m
    ELSE
        LET session == MapGet(m.sessions, normalizedUsername)
            m1 == NotifySubscribers(m, session.subscribers)
            m2 == PtyKill(m1, session.pty)
        IN [m2 EXCEPT !.sessions = MapDelete(@, normalizedUsername)]

\* createSession that records the session in the Map before it spawns
CreateSessionRegistersFirst(m, username, t, spawnOk) ==
    LET normalizedUsername == ValidateAndNormalizeUsername(username) IN
    IF UsernameThrows(username) \/ PathComponentThrows(normalizedUsername)
    THEN [m |-> m, val |-> Throw]
    ELSE
        LET pid == Len(m.ptys) + 1
            ptyProcess == [username |-> normalizedUsername,
                           status |-> "running",
                           dataL |-> <<>>, exitL |-> <<>>,
                           calls |-> <<>>, out |-> <<>>, kills |-> 0,
                           killThrows |-> FALSE]
            session == [username |-> normalizedUsername, pty |-> pid,
                        created |-> t, lastActivity |-> t,
                        subscribers |-> <<>>]
            m1 == [m EXCEPT !.sessions = MapSet(@, normalizedUsername, session)]
        IN IF ~spawnOk THEN [m |-> m1, val |-> Throw]
           ELSE [m |-> [m1 EXCEPT !.ptys = Append(@, ptyProcess)],
                 val |-> pid]

\* createSession(username): pty.spawn either returns a new process
\* (spawnOk) or throws
CreateSession(m, username, t, spawnOk) ==
    LET normalizedUsername == ValidateAndNormalizeUsername(username) IN
    IF UsernameThrows(username) \/ PathComponentThrows(normalizedUsername)
       \/ ~spawnOk
    THEN [m |-> m, val |-> Throw]
    ELSE
        LET pid == Len(m.ptys) + 1
            ptyProcess == [username |-> normalizedUsername,
                           status |-> "running",
                           dataL |-> <<>>, exitL |-> <<>>,
                           calls |-> <<>>, out |-> <<>>, kills |-> 0,
                           killThrows |-> FALSE]
            session == [username |-> normalizedUsername, pty |-> pid,
                        created |-> t, lastActivity |-> t,
                        subscribers |-> <<>>]
        IN [m |-> [m EXCEPT !.ptys = Append(@, ptyProcess),
                            !.sessions = MapSet(@, normalizedUsername, session)],
            val |-> pid]

\* getOrCreateSession that ignores forceNew
GetOrCreateSessionNoForce(m, username, forceNew, t, spawnOk) ==
    IF UsernameThrows(username) THEN [m |-> m, val |-> Throw]
    ELSE
        LET normalizedUsername == ValidateAndNormalizeUsername(username) IN
        IF MapHas(m.sessions, normalizedUsername)
        THEN LET i == MapIndex(m.sessions, normalizedUsername) IN
             [m |-> [m EXCEPT !.sessions[i].lastActivity = t],
              val |-> m.sessions[i].pty]
        ELSE CreateSession(m, normalizedUsername, t, spawnOk)

\* getOrCreateSession that never looks for an existing session
GetOrCreateSessionAlwaysNew(m, username, forceNew, t, spawnOk) ==
    IF UsernameThrows(username) THEN [m |-> m, val |-> Throw]
    ELSE CreateSession(m, ValidateAndNormalizeUsername(username), t, spawnOk)

\* getOrCreateSession(username, forceNew)
GetOrCreateSession(m, username, forceNew, t, spawnOk) ==
    IF UsernameThrows(username) THEN [m |-> m, val |-> Throw]
    ELSE
        LET normalizedUsername == ValidateAndNormalizeUsername(username)
            m1 == IF forceNew /\ MapHas(m.sessions, normalizedUsername)
                  THEN CleanupSession(m, normalizedUsername)
                  ELSE m
        IN IF MapHas(m1.sessions, normalizedUsername)
           THEN LET i == MapIndex(m1.sessions, normalizedUsername) IN
                [m |-> [m1 EXCEPT !.sessions[i].lastActivity = t],
                 val |-> m1.sessions[i].pty]
           ELSE CreateSession(m1, normalizedUsername, t, spawnOk)

\* attachToSession that looks the raw username up
AttachToSessionRawKey(m, username, w, t) ==
    IF UsernameThrows(username) THEN [m |-> m, val |-> Throw]
    ELSE
        LET i == MapIndex(m.sessions, username)
        IN IF i # 0 /\ ~ArrayIncludes(m.sessions[i].subscribers, w)
           THEN [m |-> [m EXCEPT !.sessions[i].subscribers = Append(@, w),
                                 !.sessions[i].lastActivity = t],
                 val |-> Void]
           ELSE [m |-> m, val |-> Void]

\* attachToSession without the subscribers.includes(ws) test
AttachToSessionNoCheck(m, username, w, t) ==
    IF UsernameThrows(username) THEN [m |-> m, val |-> Throw]
    ELSE
        LET normalizedUsername == ValidateAndNormalizeUsername(username)
            i == MapIndex(m.sessions, normalizedUsername)
        IN IF i # 0
           THEN [m |-> [m EXCEPT !.sessions[i].subscribers = Append(@, w),
                                 !.sessions[i].lastActivity = t],
                 val |-> Void]
           ELSE [m |-> m, val |-> Void]

\* attachToSession(username, ws)
AttachToSession(m, username, w, t) ==
    IF UsernameThrows(username) THEN [m |-> m, val |-> Throw]
    ELSE
        LET normalizedUsername == ValidateAndNormalizeUsername(username)
            i == MapIndex(m.sessions, normalizedUsername)
        IN IF i # 0 /\ ~ArrayIncludes(m.sessions[i].subscribers, w)
           THEN [m |-> [m EXCEPT !.sessions[i].subscribers = Append(@, w),
                                 !.sessions[i].lastActivity = t],
                 val |-> Void]
           ELSE [m |-> m, val |-> Void]

\* detachFromSession that empties the subscribers array
DetachFromSessionAll(m, username, w) ==
    IF UsernameThrows(username) THEN [m |-> m, val |-> Throw]
    ELSE
        LET normalizedUsername == ValidateAndNormalizeUsername(username)
            i == MapIndex(m.sessions, normalizedUsername)
        IN IF i # 0
           THEN [m |-> [m EXCEPT !.sessions[i].subscribers = <<>>],
                 val |-> Void]
           ELSE [m |-> m, val |-> Void]

\* detachFromSession(username, ws)
DetachFromSession(m, username, w) ==
    IF UsernameThrows(username) THEN [m |-> m, val |-> Throw]
    ELSE
        LET normalizedUsername == ValidateAndNormalizeUsername(username)
            i == MapIndex(m.sessions, normalizedUsername)
        IN IF i # 0
           THEN LET index == ArrayIndexOf(m.sessions[i].subscribers, w) IN
                IF index > 0
                THEN [m |-> [m EXCEPT !.sessions[i].subscribers =
                                          ArraySplice(@, index)],
                      val |-> Void]
                ELSE [m |-> m, val |-> Void]
           ELSE [m |-> m, val |-> Void]

\* the sweep loop with >= for > in the idle test
RECURSIVE SweepEntriesAtTimeout(_, _, _, _, _)
SweepEntriesAtTimeout(m, keys, timeoutMs, t, cleaned) ==
    IF keys = <<>> THEN [m |-> m, val |-> cleaned]
    ELSE
        LET username == Head(keys) IN
        IF ~MapHas(m.sessions, username)
        THEN SweepEntriesAtTimeout(m, Tail(keys), timeoutMs, t, cleaned)
        ELSE
            LET session == MapGet(m.sessions, username) IN
            IF /\ Len(session.subscribers) = 0
               /\ t - session.lastActivity >= timeoutMs
            THEN SweepEntriesAtTimeout(CleanupSession(m, username), Tail(keys),
                                       timeoutMs, t, cleaned + 1)
            ELSE SweepEntriesAtTimeout(m, Tail(keys), timeoutMs, t, cleaned)

\* the sweep loop as an index loop over an array that shrinks under it: the
\* entry after a deleted one is skipped
RECURSIVE SweepEntriesSkipping(_, _, _, _, _)
SweepEntriesSkipping(m, keys, timeoutMs, t, cleaned) ==
    IF keys = <<>> THEN [m |-> m, val |-> cleaned]
    ELSE
        LET username == Head(keys)
            session == MapGet(m.sessions, username)
        IN IF /\ Len(session.subscribers) = 0
              /\ t - session.lastActivity > timeoutMs
           THEN SweepEntriesSkipping(CleanupSession(m, username),
                                     IF Len(keys) >= 2 THEN Tail(Tail(keys))
                                     ELSE <<>>,
                                     timeoutMs, t, cleaned + 1)
           ELSE SweepEntriesSkipping(m, Tail(keys), timeoutMs, t, cleaned)

\* the loop of cleanupInactiveSessions over this.sessions.entries(): a Map
\* iterator visits every entry that is still in the Map when it gets there,
\* so deleting the entry being visited skips nothing
RECURSIVE SweepEntries(_, _, _, _, _)
SweepEntries(m, keys, timeoutMs, t, cleaned) ==
    IF keys = <<>> THEN [m |-> m, val |-> cleaned]
    ELSE
        LET username == Head(keys) IN
        IF ~MapHas(m.sessions, username)
        THEN SweepEntries(m, Tail(keys), timeoutMs, t, cleaned)
        ELSE
            LET session == MapGet(m.sessions, username) IN
            IF /\ Len(session.subscribers) = 0
               /\ t - session.lastActivity > timeoutMs
            THEN IF UsernameThrows(username) THEN [m |-> m, val |-> Throw]
                 ELSE SweepEntries(CleanupSession(m, username), Tail(keys),
                                   timeoutMs, t, cleaned + 1)
            ELSE SweepEntries(m, Tail(keys), timeoutMs, t, cleaned)

\* cleanupInactiveSessions that never finds a session idle
CleanupInactiveSessionsNever(m, timeoutMs, t) == [m |-> m, val |-> 0]

\* cleanupInactiveSessions(timeoutMs)
CleanupInactiveSessions(m, timeoutMs, t) ==
    SweepEntries(m, MapKeys(m.sessions), timeoutMs, t, 0)

\* a shutdown loop that stops after the first session
ShutdownEntriesFirstOnly(m, keys) ==
    IF keys = <<>> THEN [m |-> m, val |-> Void]
    ELSE [m |-> CleanupSession(m, Head(keys)), val |-> Void]

\* the loop of shutdownAll over this.sessions.keys()
RECURSIVE ShutdownEntries(_, _)
ShutdownEntries(m, keys) ==
    IF keys = <<>> THEN [m |-> m, val |-> Void]
    ELSE IF ~MapHas(m.sessions, Head(keys))
         THEN ShutdownEntries(m, Tail(keys))
         ELSE IF UsernameThrows(Head(keys)) THEN [m |-> m, val |-> Throw]
              ELSE ShutdownEntries(CleanupSession(m, Head(keys)), Tail(keys))

\* shutdownAll()
ShutdownAllSessions(m) == ShutdownEntries(m, MapKeys(m.sessions))

\* hasActiveSession(username), for a username that validates
HasActiveSession(m, username) ==
    MapHas(m.sessions, ValidateAndNormalizeUsername(username))

\* getSession(username), for a username that validates: the session, or
\* <<>> for undefined
GetSession(m, username) ==
    LET normalizedUsername == ValidateAndNormalizeUsername(username) IN
    IF MapHas(m.sessions, normalizedUsername)
    THEN <<MapGet(m.sessions, normalizedUsername)>>
    ELSE <<>>

\* getStats that counts the processes spawned so far, not the Map entries
GetStatsCountsProcesses(m) ==
    [totalSessions |-> Len(m.ptys),
     sessions |-> [i \in 1..Len(m.sessions) |->
                     [username |-> m.sessions[i].username,
                      created |-> m.sessions[i].created,
                      lastActivity |-> m.sessions[i].lastActivity,
                      subscribers |-> Len(m.sessions[i].subscribers)]]]

\* getStats()
GetStats(m) ==
    [totalSessions |-> Len(m.sessions),
     sessions |-> [i \in 1..Len(m.sessions) |->
                     [username |-> m.sessions[i].username,
                      created |-> m.sessions[i].created,
                      lastActivity |-> m.sessions[i].lastActivity,
                      subscribers |-> Len(m.sessions[i].subscribers)]]]

\* an 'exit' listener that kills the process before it cleans up
ManagerExitListenerKillFirst(m, p) ==
    CleanupSession(PtyKill(m, p), m.ptys[p].username)

\* an 'exit' listener that only logs
ManagerExitListenerLogOnly(m, p) == m

\* the listener createSession registers on the PTY's 'exit' event
ManagerExitListener(m, p) == CleanupSession(m, m.ptys[p].username)

\* ------------------------------------------------------------------- relay
\* exitHandler of setupTerminalWebSocket, for the connection of WebSocket w
RelayExitHandler(m, w, code) ==
    IF m.readyState[w] = "OPEN"
    THEN WsClose(WsSend(m, w, ExitMsg(code)), w)
    ELSE m

RECURSIVE RunExitHandlers(_, _, _)
RunExitHandlers(m, ws, code) ==
    IF ws = <<>> THEN m
    ELSE RunExitHandlers(RelayExitHandler(m, Head(ws), code), Tail(ws), code)

\* emit('exit', code) on PTY p: the listeners run in registration order, the
\* manager's (registered at spawn) first, then the relay's once-handlers
EmitExit(m, p, code) ==
    LET m0 == [m EXCEPT !.ptys[p].status = "exited"]
        m1 == ManagerExitListener(m0, p)
        m2 == RunExitHandlers(m1, m1.ptys[p].exitL, code)
    IN [m2 EXCEPT !.ptys[p].exitL = <<>>]

NoConn == [username |-> <<>>, pty |-> 0]

\* ------------------------------------------------------------------ actions
\* after new PtyManager(config); the WebSocket objects its callers hold are
\* established connections
Init ==
    /\ sessions = <<>>
    /\ ptys = <<>>
    /\ readyState = [w \in Viewers |-> "OPEN"]
    /\ sent = [w \in Viewers |-> <<>>]
    /\ conn = [w \in Viewers |-> NoConn]
    /\ phase = "up"
    /\ now = 0
    /\ ret = Ret("init", "", "", Void)
    /\ scn = 0
    /\ client = ClientInit

\* a caller invokes ptyManager.getOrCreateSession(username, forceNew)
GetOrCreate(username, forceNew, spawnOk) ==
    LET r == GetOrCreateSession(Cur, username, forceNew, now, spawnOk) IN
    /\ Len(r.m.ptys) <= MaxSpawns
    /\ Commit(r.m)
    /\ ret' = Ret("getOrCreate", IF forceNew THEN "forceNew" ELSE "default",
                 IF ~UsernameThrows(username)
                    /\ HasActiveSession(Cur, username)
                 THEN "session" ELSE "none",
                 r.val)
    /\ UNCHANGED <<phase, now>>

\* a caller invokes ptyManager.attachToSession(username, ws)
Attach(username, w) ==
    LET r == AttachToSession(Cur, username, w, now) IN
    /\ Commit(r.m)
    /\ ret' = Ret("attach", "", "", r.val)
    /\ UNCHANGED <<phase, now>>

\* a caller invokes ptyManager.detachFromSession(username, ws)
Detach(username, w) ==
    LET r == DetachFromSession(Cur, username, w) IN
    /\ Commit(r.m)
    /\ ret' = Ret("detach", "", "", r.val)
    /\ UNCHANGED <<phase, now>>

\* a caller invokes ptyManager.cleanupSession(username)
Destroy(username) ==
    /\ IF UsernameThrows(username)
       THEN /\ Commit(Cur)
            /\ ret' = Ret("destroy", "", "", Throw)
       ELSE /\ Commit(CleanupSession(Cur, username))
            /\ ret' = Ret("destroy", "", "", Void)
    /\ UNCHANGED <<phase, now>>

\* a caller invokes ptyManager.cleanupInactiveSessions(timeoutMs)
SweepIdle(timeoutMs) ==
    LET r == CleanupInactiveSessions(Cur, timeoutMs, now) IN
    /\ Commit(r.m)
    /\ ret' = Ret("sweepIdle", "", "", r.val)
    /\ UNCHANGED <<phase, now>>

\* a caller invokes ptyManager.shutdownAll()
ShutdownAll ==
    LET r == ShutdownAllSessions(Cur) IN
    /\ Commit(r.m)
    /\ ret' = Ret("shutdownAll", "", "", r.val)
    /\ UNCHANGED <<phase, now>>

\* PTY p exits, on its own or after a kill, and emits 'exit'
ProcessExit(p, code) ==
    /\ p \in 1..Len(ptys)
    /\ ptys[p].status \in {"running", "killed"}
    /\ Commit(EmitExit(Cur, p, code))
    /\ ret' = Ret("exit", "", ptys[p].status, p)
    /\ UNCHANGED <<phase, now>>

\* the clock advances
Tick ==
    /\ now < MaxTime
    /\ now' = now + 1
    /\ ret' = Ret("tick", "", "", Void)
    /\ UNCHANGED <<sessions, ptys, readyState, sent, conn, phase>>

\* the peer starts closing WebSocket w (close frame, or the connection drops)
WsPeerClose(w) ==
    /\ readyState[w] = "OPEN"
    /\ readyState' = [readyState EXCEPT ![w] = "CLOSING"]
    /\ ret' = Ret("closing", "", "", Void)
    /\ UNCHANGED <<sessions, ptys, sent, conn, phase, now>>

\* the PtyManager class under every order of calls to its public methods,
\* with usernames from `users` and WebSocket objects from `viewers`
ManagerNext(users, viewers) ==
    /\ \/ \E u \in users, f \in BOOLEAN, ok \in BOOLEAN : GetOrCreate(u, f, ok)
       \/ \E u \in users, w \in viewers : Attach(u, w)
       \/ \E u \in users, w \in viewers : Detach(u, w)
       \/ \E u \in users : Destroy(u)
       \/ \E t \in Timeouts : SweepIdle(t)
       \/ ShutdownAll
       \/ \E p \in 1..MaxSpawns, c \in ExitCodes : ProcessExit(p, c)
       \/ Tick
       \/ \E w \in viewers : WsPeerClose(w)
    /\ UNCHANGED <<scn, client>>

\* one user with two browser tabs
Next == ManagerNext(AliceUsernames, Viewers)

Spec == Init /\ [][Next]_vars

\* a caller invokes ptyManager.hasActiveSession(username): 1 for true, 0
\* for false
Has(username) ==
    /\ ret' = Ret("has", "", "",
                 IF UsernameThrows(username) THEN Throw
                 ELSE IF HasActiveSession(Cur, username) THEN 1 ELSE 0)
    /\ UNCHANGED <<sessions, ptys, readyState, sent, conn, phase, now>>

\* a caller invokes ptyManager.getSession(username): the process of the
\* session it returns, 0 for undefined
Get(username) ==
    /\ ret' = Ret("get", "", "",
                 IF UsernameThrows(username) THEN Throw
                 ELSE IF GetSession(Cur, username) = <<>> THEN 0
                 ELSE GetSession(Cur, username)[1].pty)
    /\ UNCHANGED <<sessions, ptys, readyState, sent, conn, phase, now>>

\* a caller invokes ptyManager.getStats(): totalSessions of the result
Stats ==
    /\ ret' = Ret("stats", "", "", GetStats(Cur).totalSessions)
    /\ UNCHANGED <<sessions, ptys, readyState, sent, conn, phase, now>>

\* usernames for the lookups: one with a session at times, one without a
\* session, one that does not validate
LookupUsernames == {AliceRaw, Bob, DotDot}

\* the lookups and attach/detach among the calls that create and destroy
\* the session of one user, with two WebSocket objects
LookupNext ==
    /\ \/ GetOrCreate(AliceRaw, FALSE, TRUE)
       \/ \E u \in LookupUsernames, w \in Viewers : Attach(u, w)
       \/ \E u \in LookupUsernames, w \in Viewers : Detach(u, w)
       \/ Destroy(Alice)
       \/ Tick
       \/ \E u \in LookupUsernames : Has(u)
       \/ \E u \in LookupUsernames : Get(u)
       \/ Stats
    /\ UNCHANGED <<scn, client>>

LookupSpec == Init /\ [][LookupNext]_vars

\* one user under several spellings, with one WebSocket object
IdentityNext == ManagerNext(AliceUsernames, OneViewer)

IdentitySpec == Init /\ [][IdentityNext]_vars

\* two users with one WebSocket object
RegistryNext == ManagerNext(TwoUsernames, OneViewer)

RegistrySpec == Init /\ [][RegistryNext]_vars

\* ------------------------------------------------------------ the server
\* what the 'jwt' query parameter of a connection can be: absent, a token
\* that does not verify, or a token signed at login for a normalized username
NoJwt      == [kind |-> "none", username |-> <<>>]
InvalidJwt == [kind |-> "invalid", username |-> <<>>]
JwtOf(username) == [kind |-> "valid", username |-> username]
Jwts == {NoJwt, InvalidJwt, JwtOf(Alice), JwtOf(Bob)}

\* validateJWT that accepts every token
ValidateJWTAcceptAll(jwt) == [valid |-> TRUE, username |-> jwt.username]

\* authService.validateJWT(token)
ValidateJWT(jwt) == [valid |-> jwt.kind = "valid", username |-> jwt.username]

ErrorMsg(message) == [type |-> "error", code |-> 0, message |-> message]
ConnectedMsg == [type |-> "connected", code |-> 0]

\* arr.filter(x => x !== w): emitter.removeListener for a listener that is
\* registered at most once
RemoveListener(arr, w) ==
    IF ArrayIncludes(arr, w) THEN ArraySplice(arr, ArrayIndexOf(arr, w)) ELSE arr

\* the 'connection' listener of setupTerminalWebSocket for WebSocket w. A
\* throw of getOrCreateSession leaves the listener before it has registered
\* anything (the process logs uncaught exceptions and goes on).
RelayConnection(m, w, jwt, t, spawnOk) ==
    IF jwt.kind = "none"
    THEN [m |-> WsClose(WsSend(m, w, ErrorMsg("No authentication token")), w),
          val |-> Void]
    ELSE
    LET authResult == ValidateJWT(jwt) IN
    IF ~authResult.valid
    THEN [m |-> WsClose(WsSend(m, w, ErrorMsg("Invalid or expired token")), w),
          val |-> Void]
    ELSE
    LET username == authResult.username
        r == GetOrCreateSession(m, username, TRUE, t, spawnOk)
    IN IF r.val = Throw THEN r
       ELSE
       LET pty == r.val
           m1 == AttachToSession(r.m, username, w, t).m
           m2 == [m1 EXCEPT !.ptys[pty].dataL = Append(@, w),
                            !.ptys[pty].exitL = Append(@, w),
                            !.conn[w] = [username |-> username, pty |-> pty]]
       IN [m |-> WsSend(m2, w, ConnectedMsg), val |-> pty]

\* a 'close' listener that destroys the session of the user
RelayCloseHandlerCleanup(m, w) ==
    IF m.conn[w] = NoConn THEN m
    ELSE
    LET pty == m.conn[w].pty
        m1 == [m EXCEPT !.ptys[pty].dataL = RemoveListener(@, w)]
    IN CleanupSession(m1, m.conn[w].username)

\* the 'close' listener the connection handler registers on WebSocket w
RelayCloseHandler(m, w) ==
    IF m.conn[w] = NoConn THEN m
    ELSE
    LET pty == m.conn[w].pty
        m1 == [m EXCEPT !.ptys[pty].dataL = RemoveListener(@, w)]
    IN DetachFromSession(m1, m.conn[w].username, w).m

\* config.SESSION_TIMEOUT_MS, in clock ticks
SESSION_TIMEOUT_MS == CHOOSE t \in Timeouts : TRUE

\* the server process has started; no client has connected yet
ServerInit ==
    /\ sessions = <<>>
    /\ ptys = <<>>
    /\ readyState = [w \in Viewers |-> "CONNECTING"]
    /\ sent = [w \in Viewers |-> <<>>]
    /\ conn = [w \in Viewers |-> NoConn]
    /\ phase = "up"
    /\ now = 0
    /\ ret = Ret("init", "", "", Void)
    /\ scn = 0
    /\ client = ClientInit

\* a client opens WebSocket w on /terminal: wss emits 'connection'
Connect(w, jwt, spawnOk) ==
    /\ phase = "up"
    /\ readyState[w] = "CONNECTING"
    /\ LET r == RelayConnection([Cur EXCEPT !.readyState[w] = "OPEN"],
                                w, jwt, now, spawnOk)
       IN /\ Len(r.m.ptys) <= MaxSpawns
          /\ Commit(r.m)
          /\ ret' = Ret("connect", jwt.kind,
                       IF jwt.kind = "valid" /\ HasActiveSession(Cur, jwt.username)
                       THEN "session" ELSE "none",
                       r.val)
    /\ UNCHANGED <<phase, now>>

\* the closing handshake of WebSocket w ends: ws emits 'close'
WsCloseEvent(w) ==
    /\ readyState[w] = "CLOSING"
    /\ Commit(RelayCloseHandler([Cur EXCEPT !.readyState[w] = "CLOSED"], w))
    /\ ret' = Ret("close", "", "", Void)
    /\ UNCHANGED <<phase, now>>

\* POST /api/auth/logout with the JWT of username
Logout(username) ==
    /\ phase = "up"
    /\ Commit(CleanupSession(Cur, username))
    /\ ret' = Ret("destroy", "", "", Void)
    /\ UNCHANGED <<phase, now>>

\* DELETE /api/sessions/:username with the JWT of username
DeleteSession(username) ==
    /\ phase = "up"
    /\ Commit(CleanupSession(Cur, username))
    /\ ret' = Ret("destroy", "", "", Void)
    /\ UNCHANGED <<phase, now>>

\* the sessionCleanupInterval timer fires
ReaperTimer ==
    /\ phase = "up"
    /\ LET r == CleanupInactiveSessions(Cur, SESSION_TIMEOUT_MS, now) IN
       /\ Commit(r.m)
       /\ ret' = Ret("sweepIdle", "", "", r.val)
    /\ UNCHANGED <<phase, now>>

\* SIGTERM or SIGINT: shutdown() clears the timer, runs shutdownAll() and
\* stops accepting connections
Shutdown ==
    /\ phase = "up"
    /\ phase' = "down"
    /\ LET r == ShutdownAllSessions(Cur) IN
       /\ Commit(r.m)
       /\ ret' = Ret("shutdownAll", "", "", r.val)
    /\ UNCHANGED now

ServerNext ==
    /\ \/ \E w \in Viewers, jwt \in Jwts, ok \in BOOLEAN : Connect(w, jwt, ok)
       \/ \E w \in Viewers : WsPeerClose(w)
       \/ \E w \in Viewers : WsCloseEvent(w)
       \/ \E u \in {Alice, Bob} : Logout(u)
       \/ \E u \in {Alice, Bob} : DeleteSession(u)
       \/ ReaperTimer
       \/ Shutdown
       \/ \E p \in 1..MaxSpawns, c \in ExitCodes : ProcessExit(p, c)
       \/ Tick
    /\ UNCHANGED <<scn, client>>

ServerSpec == ServerInit /\ [][ServerNext]_vars

\* ------------------------------------------------- relay: viewer messages
\* the truthiness test of `if (x)`
Truthy(v) == v.kind \in {"number", "string"} /\ v.n # 0

NumberIsInteger(v) == v.kind = "number" /\ v.n % 2 = 0

MaxDimension == 1000
MaxInputLength == 10000

\* validateTerminalDimensions that checks the columns only
DimensionsThrowColsOnly(cols, rows) ==
    ~NumberIsInteger(cols) \/ cols.n < 2 * 1 \/ cols.n > 2 * MaxDimension

\* TRUE when validateTerminalDimensions(cols, rows) throws
DimensionsThrow(cols, rows) ==
    \/ ~NumberIsInteger(cols) \/ cols.n < 2 * 1 \/ cols.n > 2 * MaxDimension
    \/ ~NumberIsInteger(rows) \/ rows.n < 2 * 1 \/ rows.n > 2 * MaxDimension

\* sanitizeTerminalInput without its size limit
SanitizeThrowsTypeOnly(data) == data.kind # "string"

\* sanitizeTerminalInput with >= for > in the length test
SanitizeThrowsAtLimit(data) ==
    data.kind # "string" \/ data.n >= MaxInputLength

\* TRUE when sanitizeTerminalInput(data) throws; it returns data otherwise
SanitizeThrows(data) == data.kind # "string" \/ data.n > MaxInputLength

\* pty.write(data) and pty.resize(cols, rows) on PTY p
PtyWrite(m, p, data) ==
    [m EXCEPT !.ptys[p].calls =
        Append(@, [op |-> "write", a |-> data, b |-> Undefined])]

PtyResize(m, p, cols, rows) ==
    [m EXCEPT !.ptys[p].calls =
        Append(@, [op |-> "resize", a |-> cols, b |-> rows])]

\* a 'message' listener that applies every message to the first PTY
RelayMessageHandlerFirstPty(m, w, msg) ==
    IF msg.type = "input" /\ Truthy(msg.data) /\ ~SanitizeThrows(msg.data)
    THEN PtyWrite(m, 1, msg.data)
    ELSE IF msg.type = "resize" /\ Truthy(msg.cols) /\ Truthy(msg.rows)
            /\ ~DimensionsThrow(msg.cols, msg.rows)
    THEN PtyResize(m, 1, msg.cols, msg.rows)
    ELSE m

\* a 'message' listener that answers a message it does not understand with
\* an error and closes the channel
RelayMessageHandlerStrict(m, w, msg) ==
    LET pty == m.conn[w].pty IN
    IF msg.type = "input"
    THEN IF Truthy(msg.data)
         THEN IF SanitizeThrows(msg.data)
              THEN WsSend(m, w, ErrorMsg("Invalid input"))
              ELSE PtyWrite(m, pty, msg.data)
         ELSE m
    ELSE IF msg.type = "resize"
    THEN IF Truthy(msg.cols) /\ Truthy(msg.rows)
         THEN IF DimensionsThrow(msg.cols, msg.rows)
              THEN m
              ELSE PtyResize(m, pty, msg.cols, msg.rows)
         ELSE m
    ELSE WsClose(WsSend(m, w, ErrorMsg("Invalid message")), w)

\* the 'message' listener of the connection of WebSocket w; msg.type is
\* "malformed" for a message JSON.parse rejects
RelayMessageHandler(m, w, msg) ==
    LET pty == m.conn[w].pty IN
    IF msg.type = "malformed" THEN m
    ELSE IF msg.type = "input"
    THEN IF Truthy(msg.data)
         THEN IF SanitizeThrows(msg.data)
              THEN WsSend(m, w, ErrorMsg("Invalid input"))
              ELSE PtyWrite(m, pty, msg.data)
         ELSE m
    ELSE IF msg.type = "resize"
    THEN IF Truthy(msg.cols) /\ Truthy(msg.rows)
         THEN IF DimensionsThrow(msg.cols, msg.rows)
              THEN m
              ELSE PtyResize(m, pty, msg.cols, msg.rows)
         ELSE m
    ELSE m

DataMsg(data) == [type |-> "data", code |-> 0, data |-> data]

\* a dataHandler that drops every chunk
RelayDataHandlerDrop(m, w, data) == m

\* dataHandler of the connection of WebSocket w
RelayDataHandler(m, w, data) ==
    IF m.readyState[w] = "OPEN" THEN WsSend(m, w, DataMsg(data)) ELSE m

RECURSIVE RunDataHandlers(_, _, _)
RunDataHandlers(m, ws, data) ==
    IF ws = <<>> THEN m
    ELSE RunDataHandlers(RelayDataHandler(m, Head(ws), data), Tail(ws), data)

\* the field values of the messages a viewer sends
DimensionValues == {Undefined, Num2(0), Num2(2 * MaxDimension + 2), Num2(3),
                    Num2(-2), Str(2)}
DimensionPairs ==
    {<<Num2(2), Num2(2 * MaxDimension)>>, <<Num2(2 * MaxDimension), Num2(2)>>}
    \cup {<<c, Num2(48)>> : c \in DimensionValues}
    \cup {<<Num2(160), r>> : r \in DimensionValues}
InputValues == {Undefined, Str(0), Str(MaxInputLength),
                Str(MaxInputLength + 1), Num2(2)}
ViewerMessages ==
    {ViewerMessage("resize", Undefined, d[1], d[2]) : d \in DimensionPairs}
    \cup {ViewerMessage("input", d, Undefined, Undefined) : d \in InputValues}
    \cup {ViewerMessage(t, Undefined, Undefined, Undefined) :
            t \in {"ping", "malformed"}}

\* one message of each kind that reaches a process
ValidMessages ==
    {ViewerMessage("resize", Undefined, Num2(2), Num2(2 * MaxDimension)),
     ViewerMessage("input", Str(MaxInputLength), Undefined, Undefined)}

\* the messages of one type sent so far, and the calls PTYs have received
SentCount(m, type) ==
    Cardinality(UNION {{<<w, i>> : i \in {j \in 1..Len(m.sent[w]) :
                                               m.sent[w][j].type = type}} :
                       w \in Viewers})

CallCount(m) ==
    Cardinality(UNION {{<<p, i>> : i \in 1..Len(m.ptys[p].calls)} :
                       p \in 1..Len(m.ptys)})

\* WebSocket w, whose connection has registered its listeners, emits
\* 'message'
Message(w, msg) ==
    /\ conn[w] # NoConn
    /\ readyState[w] \in {"OPEN", "CLOSING"}
    /\ LET m == RelayMessageHandler(Cur, w, msg) IN
       /\ CallCount(m) + SentCount(m, "error") <= MaxCalls
       /\ Commit(m)
    /\ ret' = [Ret("message", w, "", conn[w].pty) EXCEPT !.msg = msg]
    /\ UNCHANGED <<phase, now>>

\* the chunks of output the processes write, each written once
Chunks == {"chunk1"}

\* PTY p, not yet exited, writes a chunk of output and emits 'data'
PtyData(p, data) ==
    /\ p \in 1..Len(ptys)
    /\ ptys[p].status \in {"running", "killed"}
    /\ \A q \in 1..Len(ptys) : ~ArrayIncludes(ptys[q].out, data)
    /\ Commit(RunDataHandlers([Cur EXCEPT !.ptys[p].out = Append(@, data)],
                              ptys[p].dataL, data))
    /\ ret' = Ret("data", "", "", p)
    /\ UNCHANGED <<phase, now>>

\* the message listener under every message: connections of one user, their
\* messages, closes and process exits
MessageNext ==
    /\ \/ \E w \in Viewers, ok \in BOOLEAN : Connect(w, JwtOf(Alice), ok)
       \/ \E w \in Viewers, msg \in ViewerMessages : Message(w, msg)
       \/ \E w \in Viewers : WsPeerClose(w)
       \/ \E w \in Viewers : WsCloseEvent(w)
       \/ \E p \in 1..MaxSpawns : ProcessExit(p, 0)
    /\ UNCHANGED <<scn, client>>

MessageSpec == ServerInit /\ [][MessageNext]_vars

\* the relay with its traffic in both directions: connections of two users,
\* messages that reach the process, process output, closes and process exits
RelayNext ==
    /\ \/ \E w \in Viewers, u \in {Alice, Bob}, ok \in BOOLEAN :
             Connect(w, JwtOf(u), ok)
       \/ \E w \in Viewers, msg \in ValidMessages : Message(w, msg)
       \/ \E p \in 1..MaxSpawns, data \in Chunks : PtyData(p, data)
       \/ \E w \in Viewers : WsPeerClose(w)
       \/ \E w \in Viewers : WsCloseEvent(w)
       \/ \E p \in 1..MaxSpawns : ProcessExit(p, 0)
    /\ UNCHANGED <<scn, client>>

RelaySpec == ServerInit /\ [][RelayNext]_vars

\* two chunks of output, to observe their order
OutputChunks == {"chunk1", "chunk2"}

\* the output pump: connections of one user, the output of their processes,
\* closes and process exits
OutputNext ==
    /\ \/ \E w \in Viewers, ok \in BOOLEAN : Connect(w, JwtOf(Alice), ok)
       \/ \E p \in 1..MaxSpawns, data \in OutputChunks : PtyData(p, data)
       \/ \E w \in Viewers : WsPeerClose(w)
       \/ \E w \in Viewers : WsCloseEvent(w)
       \/ \E p \in 1..MaxSpawns : ProcessExit(p, 0)
    /\ UNCHANGED <<scn, client>>

OutputSpec == ServerInit /\ [][OutputNext]_vars

\* PTY p, running, gets into a condition in which pty.kill() throws
KillFails(p) ==
    /\ p \in 1..Len(ptys)
    /\ ptys[p].status = "running"
    /\ ~ptys[p].killThrows
    /\ ptys' = [ptys EXCEPT ![p].killThrows = TRUE]
    /\ ret' = Ret("killFails", "", "", p)
    /\ UNCHANGED <<sessions, readyState, sent, conn, phase, now>>

\* teardown with processes whose kill fails: connections of one user,
\* logouts, shutdown, closes and process exits
TeardownNext ==
    /\ \/ \E w \in Viewers, ok \in BOOLEAN : Connect(w, JwtOf(Alice), ok)
       \/ \E p \in 1..MaxSpawns : KillFails(p)
       \/ Logout(Alice)
       \/ Shutdown
       \/ \E w \in Viewers : WsPeerClose(w)
       \/ \E w \in Viewers : WsCloseEvent(w)
       \/ \E p \in 1..MaxSpawns : ProcessExit(p, 0)
    /\ UNCHANGED <<scn, client>>

TeardownSpec == ServerInit /\ [][TeardownNext]_vars

\* an 'error' listener that detaches the viewer
RelayErrorHandlerDetach(m, w) ==
    IF m.conn[w] = NoConn THEN m
    ELSE DetachFromSession(m, m.conn[w].username, w).m

\* the 'error' listener the connection handler registers on WebSocket w: it
\* logs the error
RelayErrorHandler(m, w) == m

\* a transport error on WebSocket w, open with its listeners registered: the
\* socket is torn down (its 'close' event follows) and ws emits 'error'
WsError(w) ==
    /\ readyState[w] = "OPEN"
    /\ conn[w] # NoConn
    /\ Commit(RelayErrorHandler([Cur EXCEPT !.readyState[w] = "CLOSING"], w))
    /\ ret' = Ret("error", w, "", conn[w].pty)
    /\ UNCHANGED <<phase, now>>

\* transport errors among the relay's events: connections of one user,
\* process output, errors, closes and process exits
TransportNext ==
    /\ \/ \E w \in Viewers, ok \in BOOLEAN : Connect(w, JwtOf(Alice), ok)
       \/ \E p \in 1..MaxSpawns, data \in Chunks : PtyData(p, data)
       \/ \E w \in Viewers : WsError(w)
       \/ \E w \in Viewers : WsCloseEvent(w)
       \/ \E p \in 1..MaxSpawns : ProcessExit(p, 0)
    /\ UNCHANGED <<scn, client>>

TransportSpec == ServerInit /\ [][TransportNext]_vars

\* an input that sanitizeTerminalInput rejects
OversizedInput ==
    ViewerMessage("input", Str(MaxInputLength + 1), Undefined, Undefined)

\* everything that sends to a viewer, interleaved: connections of one user,
\* rejected inputs, process output, logout, closes and process exits
SendersNext ==
    /\ \/ \E w \in Viewers, ok \in BOOLEAN : Connect(w, JwtOf(Alice), ok)
       \/ \E w \in Viewers : Message(w, OversizedInput)
       \/ \E p \in 1..MaxSpawns, data \in Chunks : PtyData(p, data)
       \/ Logout(Alice)
       \/ \E w \in Viewers : WsPeerClose(w)
       \/ \E w \in Viewers : WsCloseEvent(w)
       \/ \E p \in 1..MaxSpawns : ProcessExit(p, 0)
    /\ UNCHANGED <<scn, client>>

SendersSpec == ServerInit /\ [][SendersNext]_vars

\* a connect early enough for the idle window of its session to end before
\* the clock reaches its bound
EarlyConnect(w, spawnOk) ==
    /\ now + SESSION_TIMEOUT_MS < MaxTime
    /\ Connect(w, JwtOf(Alice), spawnOk)

\* the idle reaper at work: connections of one user, closes, the reaper's
\* timer, the clock, process exits and shutdown
ReaperSteps ==
    \/ \E w \in Viewers, ok \in BOOLEAN : EarlyConnect(w, ok)
    \/ \E w \in Viewers : WsPeerClose(w)
    \/ \E w \in Viewers : WsCloseEvent(w)
    \/ ReaperTimer
    \/ Tick
    \/ \E p \in 1..MaxSpawns : ProcessExit(p, 0)
    \/ Shutdown

ReaperNext == ReaperSteps /\ UNCHANGED <<scn, client>>

ReaperSpec == ServerInit /\ [][ReaperNext]_vars

\* setInterval keeps firing the reaper's timer and the clock keeps moving
ReaperFairSpec ==
    /\ ReaperSpec
    /\ WF_vars(ReaperTimer /\ UNCHANGED <<scn, client>>)
    /\ WF_vars(Tick /\ UNCHANGED <<scn, client>>)

\* the same steps, with scn recording the time of the last close event that
\* removed a viewer from a session
DetachClockNext ==
    /\ ReaperSteps
    /\ scn' = IF ret'.op = "close" /\ sessions' # sessions THEN now ELSE scn
    /\ UNCHANGED client

DetachClockSpec == ServerInit /\ [][DetachClockNext]_vars

\* ------------------------------------------------- the two-tab scenario
\* Registry calls in the order of the scenario: getOrCreate(alice),
\* attach(tab1), getOrCreate(alice, false), attach(tab2), the two detaches in
\* either order, then sweeps; the clock runs and the tabs' sockets may start
\* closing at any point. scn counts the calls made.
ScenarioUsernames == {Alice, AliceRaw}

ScenarioNext ==
    \/ /\ scn = 0
       /\ \E u \in ScenarioUsernames, ok \in BOOLEAN : GetOrCreate(u, FALSE, ok)
       /\ scn' = IF ret'.val = Throw THEN 0 ELSE 1
       /\ UNCHANGED client
    \/ /\ scn = 1
       /\ \E u \in ScenarioUsernames : Attach(u, "tab1")
       /\ scn' = 2
       /\ UNCHANGED client
    \/ /\ scn = 2
       /\ \E u \in ScenarioUsernames, ok \in BOOLEAN : GetOrCreate(u, FALSE, ok)
       /\ scn' = 3
       /\ UNCHANGED client
    \/ /\ scn = 3
       /\ \E u \in ScenarioUsernames : Attach(u, "tab2")
       /\ scn' = 4
       /\ UNCHANGED client
    \/ /\ scn \in {4, 5}
       /\ \E u \in ScenarioUsernames, w \in Viewers :
             /\ ArrayIncludes(MapGet(sessions, Alice).subscribers, w)
             /\ Detach(u, w)
       /\ scn' = scn + 1
       /\ UNCHANGED client
    \/ /\ scn = 6
       /\ \E t \in Timeouts :
             /\ now - MapGet(sessions, Alice).lastActivity > t
             /\ SweepIdle(t)
       /\ scn' = 7
       /\ UNCHANGED client
    \/ /\ scn \in 1..6
       /\ \E t \in Timeouts :
             /\ now - MapGet(sessions, Alice).lastActivity <= t
             /\ SweepIdle(t)
       /\ UNCHANGED <<scn, client>>
    \/ Tick /\ UNCHANGED <<scn, client>>
    \/ (\E w \in Viewers : WsPeerClose(w)) /\ UNCHANGED <<scn, client>>

ScenarioSpec == Init /\ [][ScenarioNext]_vars

\* ------------------------------------------------------ the browser client
\* a string as the sequence of its characters
TextInvalidInput == <<"I","n","v","a","l","i","d"," ","i","n","p","u","t">>
TextInvalidOrExpiredToken ==
    <<"I","n","v","a","l","i","d"," ","o","r"," ",
      "e","x","p","i","r","e","d"," ","t","o","k","e","n">>

\* String.prototype.includes
Includes(str, sub) ==
    \E i \in 0..(Len(str) - Len(sub)) : SubSeq(str, i + 1, i + Len(sub)) = sub

\* a message of the server, parsed
ServerMessage(type, message) == [type |-> type, message |-> message]

\* the test the 'error' branch of onmessage makes on message.message
IsAuthError(message) ==
    /\ message # <<>>
    /\ \/ Includes(message, <<"t","o","k","e","n">>)
       \/ Includes(message, <<"a","u","t","h">>)
       \/ Includes(message, <<"I","n","v","a","l","i","d">>)
       \/ Includes(message, <<"e","x","p","i","r","e","d">>)

maxReconnectDelay == 30000

\* the delay scheduleReconnect computes when reconnectAttempts is n:
\* Math.min(1000 * Math.pow(2, n), maxReconnectDelay)
ReconnectDelay(n) ==
    IF 1000 * (2 ^ n) < maxReconnectDelay
    THEN 1000 * (2 ^ n) ELSE maxReconnectDelay

\* new WebSocket(wsUrl): srv is what the server has done with the
\* connection ("new": its 'connection' handler has not run; "relay": it
\* relays a session; "rejected": it has refused the token and called
\* ws.close(); "exited": it has sent exit and called ws.close()), code the
\* code of the close event to come, resizes the resize messages sent on the
\* socket
NewSocket ==
    [readyState |-> "CONNECTING", srv |-> "new", code |-> 0, resizes |-> 0]

\* clearTimeout(h)
ClearTimeout(c, h) ==
    IF h \in 1..Len(c.timers) THEN [c EXCEPT !.timers[h] = 0] ELSE c

\* setTimeout(callback, delay): the handle of the new timer
FreeHandle(timers) ==
    IF \E h \in 1..Len(timers) : timers[h] = 0
    THEN CHOOSE h \in 1..Len(timers) :
             timers[h] = 0 /\ \A k \in 1..(h - 1) : timers[k] # 0
    ELSE Len(timers) + 1

SetTimeout(timers, delay) ==
    IF FreeHandle(timers) <= Len(timers)
    THEN [timers EXCEPT ![FreeHandle(timers)] = delay]
    ELSE Append(timers, delay)

\* scheduleReconnect() with a delay that keeps doubling
ScheduleReconnectNoCap(c) ==
    LET c1 == IF c.reconnectTimeout # 0
              THEN ClearTimeout(c, c.reconnectTimeout) ELSE c
        delay == 1000 * (2 ^ c.reconnectAttempts)
    IN [c1 EXCEPT !.reconnectAttempts = @ + 1,
                  !.reconnectTimeout = FreeHandle(c1.timers),
                  !.timers = SetTimeout(@, delay)]

\* scheduleReconnect()
ScheduleReconnect(c) ==
    LET c1 == IF c.reconnectTimeout # 0
              THEN ClearTimeout(c, c.reconnectTimeout) ELSE c
        delay == ReconnectDelay(c.reconnectAttempts)
    IN [c1 EXCEPT !.reconnectAttempts = @ + 1,
                  !.reconnectTimeout = FreeHandle(c1.timers),
                  !.timers = SetTimeout(@, delay)]

\* connect(); ctorOk: whether new WebSocket() returns rather than throws
ClientConnect(c, ctorOk) ==
    IF c.ws # 0 /\ c.socks[c.ws].readyState \in {"CONNECTING", "OPEN"}
    THEN c
    ELSE IF ~c.auth THEN [c EXCEPT !.status = "Not authenticated"]
    ELSE IF ~ctorOk
    THEN ScheduleReconnect([c EXCEPT !.status = "Connection failed"])
    ELSE [c EXCEPT !.status = "Connecting...",
                   !.socks = Append(@, NewSocket),
                   !.ws = Len(c.socks) + 1,
                   !.terminalWS = Len(c.socks) + 1]

\* the 'beforeunload' listener: the page goes away
ClientBeforeUnload(c) ==
    LET c1 == IF c.ws # 0 /\ c.socks[c.ws].readyState \in {"CONNECTING", "OPEN"}
              THEN [c EXCEPT !.socks[c.ws].readyState = "CLOSING",
                             !.socks[c.ws].code = 1000]
              ELSE c
    IN [c1 EXCEPT !.loaded = FALSE]

\* ws.onopen of socket s
ClientOnOpen(c, s) ==
    [c EXCEPT !.status = "Connected",
              !.reconnectAttempts = 0,
              !.sizeTimers = @ + 1]

\* ws.onmessage of socket s
ClientOnMessage(c, s, message) ==
    IF message.type = "data" THEN c
    ELSE IF message.type = "connected" THEN c
    ELSE IF message.type = "exit"
    THEN [c EXCEPT !.status = "Session ended"]
    ELSE IF message.type = "error"
    THEN IF IsAuthError(message.message)
         THEN ClientBeforeUnload([c EXCEPT !.status = "Error", !.auth = FALSE])
         ELSE [c EXCEPT !.status = "Error"]
    ELSE c

\* ws.onclose of socket s
ClientOnClose(c, s, code) ==
    LET c1 == [c EXCEPT !.ws = 0, !.terminalWS = 0]
    IN IF code # 1000 /\ code # 1001
       THEN ScheduleReconnect(
                [c1 EXCEPT !.status = "Disconnected - Reconnecting..."])
       ELSE [c1 EXCEPT !.status = "Disconnected"]

\* the steps of the page leave the server's variables alone; ret records
\* the handler that ran (op), for onmessage the message (arg), the socket it
\* ran for (val) and reconnectAttempts before it ran (pre)
ClientStep(c, op, arg, s) ==
    /\ client' = c
    /\ ret' = Ret(op, arg, client.reconnectAttempts, s)
    /\ UNCHANGED <<sessions, ptys, readyState, sent, conn, phase, now, scn>>

\* showTerminal() dispatches the 'auth-ready' event, once the page has found
\* itself authenticated
AuthReady(outcomes) ==
    /\ client.loaded
    /\ client.auth
    /\ ~client.ready
    /\ Len(client.socks) < MaxSockets
    /\ client.reconnectAttempts < MaxAttempts
    /\ \E ctorOk \in outcomes :
          ClientStep(ClientConnect([client EXCEPT !.ready = TRUE], ctorOk),
                     "auth-ready", "", 0)

\* the 'visibilitychange' event, the page having become visible
VisibilityChange(outcomes) ==
    /\ client.loaded
    /\ LET c == [client EXCEPT !.reconnectAttempts = 0] IN
       IF client.ws = 0 \/ client.socks[client.ws].readyState # "OPEN"
       THEN /\ Len(client.socks) < MaxSockets
            /\ \E ctorOk \in outcomes :
                  ClientStep(ClientConnect(c, ctorOk), "visible", "", 0)
       ELSE ClientStep(client, "visible", "", 0)

\* the timer of scheduleReconnect with handle h fires
ReconnectTimer(h, outcomes) ==
    /\ client.loaded
    /\ client.timers[h] # 0
    /\ Len(client.socks) < MaxSockets
    /\ client.reconnectAttempts < MaxAttempts
    /\ \E ctorOk \in outcomes :
          ClientStep(ClientConnect([client EXCEPT !.timers[h] = 0], ctorOk),
                     "timer", "", 0)

\* the 200 ms timer of an onopen fires: its callback sends the size of the
\* terminal on the socket ws designates, if that socket is open
SizeTimer ==
    /\ client.loaded
    /\ client.sizeTimers > 0
    /\ ClientStep(
          IF client.ws # 0 /\ client.socks[client.ws].readyState = "OPEN"
          THEN [client EXCEPT !.sizeTimers = @ - 1,
                              !.socks[client.ws].resizes = @ + 1]
          ELSE [client EXCEPT !.sizeTimers = @ - 1],
          "size", "", 0)

\* the user leaves or refreshes the page
BeforeUnload ==
    /\ client.loaded
    /\ ClientStep(ClientBeforeUnload(client), "beforeunload", "", 0)

\* the user terminates their own session in the sessions panel:
\* clearAuth() and location.reload()
TerminateOwnSession ==
    /\ client.loaded
    /\ client.auth
    /\ ClientStep(ClientBeforeUnload([client EXCEPT !.auth = FALSE]),
                  "terminate", "", 0)

\* the handshake of socket s completes
SocketOpen(s) ==
    /\ client.loaded
    /\ client.socks[s].readyState = "CONNECTING"
    /\ ClientStep(ClientOnOpen([client EXCEPT !.socks[s].readyState = "OPEN"],
                               s), "onopen", "", s)

\* the close frame of the server arrives on socket s: the server's
\* ws.close() gives no code, which the browser reports as 1005
SocketCloseFrame(s) ==
    /\ client.loaded
    /\ client.socks[s].readyState = "OPEN"
    /\ client.socks[s].srv \in {"rejected", "exited"}
    /\ ClientStep([client EXCEPT !.socks[s].readyState = "CLOSING",
                                 !.socks[s].code = 1005], "closing", "", s)

\* the connection of socket s fails: the socket is closed and its 'error'
\* event (onerror sets the status) and its 'close' event, with code 1006,
\* are fired one after the other
SocketFail(s) ==
    /\ client.loaded
    /\ client.socks[s].readyState \in {"CONNECTING", "OPEN"}
    /\ client.reconnectAttempts < MaxAttempts
    /\ ClientStep(ClientOnClose([client EXCEPT
                                    !.socks[s].readyState = "CLOSED",
                                    !.socks[s].code = 1006,
                                    !.status = "Connection error"],
                                s, 1006),
                  "failed", "", s)

\* the 'close' event of socket s
SocketClose(s) ==
    /\ client.loaded
    /\ client.socks[s].readyState = "CLOSING"
    /\ client.socks[s].code \in {1000, 1001}
          \/ client.reconnectAttempts < MaxAttempts
    /\ ClientStep(ClientOnClose([client EXCEPT
                                    !.socks[s].readyState = "CLOSED"],
                                s, client.socks[s].code), "onclose", "", s)

\* the server sends msg on socket s and the 'message' event of the socket
\* follows; srv: what the server has done with the connection afterwards
SocketMessage(s, msg, arg, srv) ==
    /\ client.loaded
    /\ client.socks[s].readyState = "OPEN"
    /\ ClientStep(ClientOnMessage([client EXCEPT !.socks[s].srv = srv],
                                  s, msg), "onmessage", arg, s)

\* the server's 'connection' handler runs for socket s: with a valid token it
\* sends 'connected' and relays, otherwise it sends an error and closes
ServerConnection(s, valid) ==
    /\ client.socks[s].srv = "new"
    /\ IF valid
       THEN SocketMessage(s, ServerMessage("connected", <<>>),
                          "connected", "relay")
       ELSE SocketMessage(s, ServerMessage("error", TextInvalidOrExpiredToken),
                          "token", "rejected")

\* dataHandler: output of the process
ServerData(s) ==
    /\ client.socks[s].srv = "relay"
    /\ SocketMessage(s, ServerMessage("data", <<>>), "data", "relay")

\* the reply of the 'message' listener to an input it rejects
ServerInvalidInput(s) ==
    /\ client.socks[s].srv = "relay"
    /\ SocketMessage(s, ServerMessage("error", TextInvalidInput),
                     "rejected", "relay")

\* exitHandler and cleanupSession: the exit message, then ws.close()
ServerExit(s) ==
    /\ client.socks[s].srv = "relay"
    /\ SocketMessage(s, ServerMessage("exit", <<>>), "exit", "exited")

\* the events of the page and of its sockets; outcomes: whether
\* new WebSocket() can throw
ClientEvents(outcomes) ==
    \/ AuthReady(outcomes)
    \/ VisibilityChange(outcomes)
    \/ \E h \in 1..Len(client.timers) : ReconnectTimer(h, outcomes)
    \/ \E s \in 1..Len(client.socks) : SocketOpen(s)
    \/ \E s \in 1..Len(client.socks) : SocketFail(s)

\* the page under every order of its events, with the server at the other
\* end of its sockets
ClientNext ==
    \/ ClientEvents({TRUE})
    \/ BeforeUnload
    \/ TerminateOwnSession
    \/ \E s \in 1..Len(client.socks) : SocketCloseFrame(s)
    \/ \E s \in 1..Len(client.socks) : SocketClose(s)
    \/ \E s \in 1..Len(client.socks), valid \in BOOLEAN : ServerConnection(s, valid)
    \/ \E s \in 1..Len(client.socks) : ServerData(s)
    \/ \E s \in 1..Len(client.socks) : ServerInvalidInput(s)
    \/ \E s \in 1..Len(client.socks) : ServerExit(s)

ClientSpec == ServerInit /\ [][ClientNext]_vars

\* the page with connections that fail and a constructor that may throw
BackoffNext ==
    \/ ClientEvents(BOOLEAN)
    \/ SizeTimer

BackoffSpec == ServerInit /\ [][BackoffNext]_vars

\* ------------------------------------------------------------------ claims
Pids == 1..Len(ptys)

ExitCount(msgs) == Cardinality({i \in 1..Len(msgs) : msgs[i].type = "exit"})

GetOrCreateReusesSession ==
    [][\A u \in RawUsernames, ok \in BOOLEAN :
        (/\ ret'.op = "getOrCreate" /\ ret'.arg = "default"
         /\ GetOrCreate(u, FALSE, ok)
         /\ ~UsernameThrows(u)
         /\ MapHas(sessions, ValidateAndNormalizeUsername(u)))
        => LET i == MapIndex(sessions, ValidateAndNormalizeUsername(u)) IN
           /\ ret'.val = sessions[i].pty
           /\ ptys' = ptys
           /\ sessions' = [sessions EXCEPT ![i].lastActivity = now]
           /\ readyState' = readyState /\ sent' = sent]_vars

\* a second getOrCreate(alice, false) has returned the session of the first,
\* later than its creation
SecondGetOrCreateDone ==
    /\ ret.op = "getOrCreate" /\ ret.arg = "default" /\ ret.pre = "session"
    /\ ret.val = 1
    /\ Len(ptys) = 1
    /\ MapHas(sessions, Alice)
    /\ MapGet(sessions, Alice).pty = 1
    /\ MapGet(sessions, Alice).created < now
    /\ MapGet(sessions, Alice).lastActivity = now

\* C5: once the 'exit' event of a process that nobody had killed (the process
\* of a registered session) has been handled, has(id) is false and stats()
\* lists no session of that identity.
ExitRemovesSession ==
    (ret.op = "exit" /\ ret.pre = "running")
    => LET u == ptys[ret.val].username
           stats == GetStats(Cur)
       IN /\ ~HasActiveSession(Cur, u)
          /\ \A i \in 1..Len(stats.sessions) : stats.sessions[i].username # u
          /\ stats.totalSessions = Len(stats.sessions)

\* the only process ever spawned has exited on its own and its session is gone
SelfExitHandled ==
    /\ ret.op = "exit" /\ ret.pre = "running" /\ ret.val = 1
    /\ Len(ptys) = 1
    /\ ptys[1].status = "exited"
    /\ sessions = <<>>

\* C7: a session's viewer set never holds the same viewer twice.
NoDuplicateViewers ==
    \A i \in 1..Len(sessions) :
        \A a, b \in 1..Len(sessions[i].subscribers) :
            sessions[i].subscribers[a] = sessions[i].subscribers[b] => a = b

\* attach has just been called for a viewer that was attached already (an
\* attach that adds a viewer sets lastActivity to now)
DuplicateAttachDone ==
    /\ ret.op = "attach" /\ ret.val = Void
    /\ MapHas(sessions, Alice)
    /\ MapGet(sessions, Alice).lastActivity < now
    /\ Len(MapGet(sessions, Alice).subscribers) = 2

\* the sessions sweepIdle(timeoutMs) is to destroy, by index in the Map
IdleIndexes(timeoutMs) ==
    {i \in 1..Len(sessions) :
        /\ Len(sessions[i].subscribers) = 0
        /\ now - sessions[i].lastActivity > timeoutMs}

\* C8: sweepIdle(timeout) leaves every session with an attached viewer, and
\* every session with now - lastActivity <= timeout, untouched: same Registry
\* entry (process, timestamps, viewer set), process not signalled, viewers
\* not notified or closed.
SweepSparesActiveSessions ==
    [][\A t \in Timeouts :
        (ret'.op = "sweepIdle" /\ SweepIdle(t)) =>
          \A i \in (1..Len(sessions)) \ IdleIndexes(t) :
            /\ MapHas(sessions', sessions[i].username)
            /\ MapGet(sessions', sessions[i].username) = sessions[i]
            /\ ptys'[sessions[i].pty] = ptys[sessions[i].pty]
            /\ \A k \in 1..Len(sessions[i].subscribers) :
                  LET w == sessions[i].subscribers[k] IN
                  readyState'[w] = readyState[w] /\ sent'[w] = sent[w]]_vars

\* a sweep has just run and left both a session with a viewer that has been
\* idle past the timeout and a viewer-less session that has not
SweepSparedBoth ==
    /\ ret.op = "sweepIdle"
    /\ \E i \in 1..Len(sessions) :
          /\ Len(sessions[i].subscribers) > 0
          /\ now - sessions[i].lastActivity > 1
    /\ \E i \in 1..Len(sessions) :
          /\ Len(sessions[i].subscribers) = 0
          /\ now - sessions[i].lastActivity <= 1

\* C9: sweepIdle(timeout) destroys every session with no viewer and
\* now - lastActivity > timeout, all in the one sweep (entry removed, process
\* signalled), and returns the number of sessions it destroyed.
SweepDestroysAllIdle ==
    [][\A t \in Timeouts :
        (ret'.op = "sweepIdle" /\ SweepIdle(t)) =>
          /\ \A i \in IdleIndexes(t) :
                /\ ~MapHas(sessions', sessions[i].username)
                /\ ptys'[sessions[i].pty].status # "running"
          /\ ret'.val = Cardinality(IdleIndexes(t))
          /\ ret'.val = Len(sessions) - Len(sessions')]_vars

\* one sweep has destroyed two sessions
SweepDestroyedTwo ==
    /\ ret.op = "sweepIdle" /\ ret.val = 2
    /\ sessions = <<>>
    /\ Len(ptys) = 2
    /\ \A p \in Pids : ptys[p].status = "killed"

\* the processes of username u that are live
LiveOf(u) == {p \in Pids : ptys[p].username = u /\ Live(p)}

\* a step that is getOrCreate(u, true) on an identity that has a session
ForcedReplacement(u, ok) ==
    /\ ret'.op = "getOrCreate" /\ ret'.arg = "forceNew" /\ ret'.pre = "session"
    /\ ~UsernameThrows(u)
    /\ MapHas(sessions, ValidateAndNormalizeUsername(u))
    /\ GetOrCreate(u, TRUE, ok)

ForcedReplacementNotifiesEveryViewer ==
    [][\A u \in RawUsernames, ok \in BOOLEAN :
        ForcedReplacement(u, ok) =>
          LET subs == MapGet(sessions, ValidateAndNormalizeUsername(u)).subscribers
          IN \A k \in 1..Len(subs) :
                /\ ExitCount(sent'[subs[k]]) = ExitCount(sent[subs[k]]) + 1
                /\ readyState'[subs[k]] # "OPEN"]_vars

\* C4, amended: on a forced replacement every viewer attached to the old
\* session whose channel is open is sent one "exit" message (code 0) and its
\* channel starts closing; a viewer whose channel is already closing or
\* closed is sent nothing; no attached viewer is left open.
ForcedReplacementNotifiesOpenViewers ==
    [][\A u \in RawUsernames, ok \in BOOLEAN :
        ForcedReplacement(u, ok) =>
          LET subs == MapGet(sessions, ValidateAndNormalizeUsername(u)).subscribers
          IN \A k \in 1..Len(subs) :
                LET w == subs[k] IN
                /\ readyState'[w] # "OPEN"
                /\ IF readyState[w] = "OPEN"
                   THEN /\ sent'[w] = Append(sent[w], ExitMsg(0))
                        /\ readyState'[w] = "CLOSING"
                   ELSE /\ sent'[w] = sent[w]
                        /\ readyState'[w] = readyState[w]]_vars

\* a forced replacement has notified and closed both tabs of the old session
BothTabsNotified ==
    /\ ret.op = "getOrCreate" /\ ret.arg = "forceNew" /\ ret.pre = "session"
    /\ \A w \in Viewers :
          sent[w] = <<ExitMsg(0)>> /\ readyState[w] = "CLOSING"
    /\ ptys[1].status = "killed"
\* the sessions of the current state that the step tears down: their process
\* has no Registry entry in the next state
TornDown == {i \in 1..Len(sessions) :
                \A j \in 1..Len(sessions') : sessions'[j].pty # sessions[i].pty}

\* C6, as claimed: on every session teardown each attached viewer has
\* received exactly one "exit" message, whichever of an explicit destroy, a
\* forced replacement, a sweep, a shutdown or the process's 'exit' event (with
\* the Registry's listener and the relay's exitHandler) tears it down.
TeardownNotifiesEveryViewerOnce ==
    [][\A i \in TornDown : \A k \in 1..Len(sessions[i].subscribers) :
          ExitCount(sent'[sessions[i].subscribers[k]]) = 1]_vars

\* C6, amended: no viewer is ever sent two "exit" messages; on every session
\* teardown each attached viewer whose channel is open is sent its one "exit"
\* message and its channel starts closing, and an attached viewer whose
\* channel is already closing is sent nothing.
TeardownNotifiesOpenViewersOnce ==
    [][/\ \A w \in Viewers : ExitCount(sent'[w]) <= 1
       /\ \A i \in TornDown : \A k \in 1..Len(sessions[i].subscribers) :
             LET w == sessions[i].subscribers[k] IN
             IF readyState[w] = "OPEN"
             THEN /\ ExitCount(sent[w]) = 0
                  /\ ExitCount(sent'[w]) = 1
                  /\ readyState'[w] = "CLOSING"
             ELSE sent'[w] = sent[w]]_vars

\* the 'exit' event of a process that an explicit destroy had killed has run
\* the Registry's listener and the relay's exitHandler of tab1, which is
\* still in its closing handshake: tab1 holds one "exit" message
ExitAfterDestroyHandled ==
    /\ ret.op = "exit" /\ ret.pre = "killed" /\ ret.val = 1
    /\ Len(ptys) = 1
    /\ ptys[1].status = "exited" /\ ptys[1].exitL = <<>>
    /\ conn["tab1"].pty = 1
    /\ readyState["tab1"] = "CLOSING"
    /\ sent["tab1"] = <<ConnectedMsg, ExitMsg(0)>>

\* C10: with no prior session, after getOrCreate(alice) and attach(tab1)
\* stats() reports one session with one viewer; after getOrCreate(alice,
\* false) and attach(tab2) one session with two viewers on the same process;
\* after one detach one viewer, after both none, the session still present;
\* after a sweepIdle run once the idle timeout has elapsed, no session.
TwoTabScenario ==
    LET stats == GetStats(Cur)
        One(n) == /\ stats.totalSessions = 1
                  /\ Len(stats.sessions) = 1
                  /\ stats.sessions[1].username = Alice
                  /\ stats.sessions[1].subscribers = n
                  /\ HasActiveSession(Cur, Alice)
                  /\ MapGet(sessions, Alice).pty = 1
                  /\ Len(ptys) = 1 /\ Live(1)
    IN /\ scn = 1 => One(0)
       /\ scn \in {2, 3} => One(1)
       /\ scn = 4 => One(2)
       /\ scn = 5 => One(1)
       /\ scn = 6 => One(0)
       /\ scn = 7 => /\ stats.totalSessions = 0
                     /\ stats.sessions = <<>>
                     /\ ~HasActiveSession(Cur, Alice)

\* the scenario has run to its end: the sweep has destroyed the session both
\* tabs had been attached to
ScenarioCompleted ==
    /\ scn = 7
    /\ ret.op = "sweepIdle" /\ ret.val = 1
    /\ sessions = <<>>
    /\ Len(ptys) = 1 /\ ptys[1].status = "killed"
\* a JavaScript value that is an integer in [1, 1000]
InRange(v) == v.kind = "number" /\ v.n % 2 = 0 /\ v.n >= 2 /\ v.n <= 2000

\* C11: a resize message of a connected viewer invokes the resize operation
\* of the viewer's process, with the message's cols and rows, if and only if
\* both are integers in [1, 1000]; any other resize message invokes nothing
\* on any process.
ResizeIffDimensionsInRange ==
    [][(ret'.op = "message" /\ ret'.msg.type = "resize") =>
          LET msg == ret'.msg IN
          /\ ret'.val = conn[ret'.arg].pty
          /\ IF InRange(msg.cols) /\ InRange(msg.rows)
             THEN ptys' = [ptys EXCEPT ![ret'.val].calls =
                             Append(@, [op |-> "resize", a |-> msg.cols,
                                        b |-> msg.rows])]
             ELSE ptys' = ptys]_vars

\* a resize to 1 column and 1000 rows has reached a process
BoundaryResizeApplied ==
    /\ ret.op = "message" /\ ret.msg.type = "resize"
    /\ ptys[ret.val].calls =
          <<[op |-> "resize", a |-> Num2(2), b |-> Num2(2000)]>>

\* C12: an input message whose data is a string longer than 10,000
\* characters is rejected: nothing is written to any process, and the viewer
\* (when its channel is open) is sent an "Invalid input" error.
OversizedInputRejected ==
    [][(/\ ret'.op = "message" /\ ret'.msg.type = "input"
        /\ ret'.msg.data.kind = "string" /\ ret'.msg.data.n > 10000) =>
          /\ ptys' = ptys
          /\ sent' = [sent EXCEPT ![ret'.arg] =
                        IF readyState[ret'.arg] = "OPEN"
                        THEN Append(@, ErrorMsg("Invalid input")) ELSE @]]_vars

\* an input message of 10,001 characters has been answered with the error
\* and no process has received a write
OversizedInputAnswered ==
    /\ ret.op = "message" /\ ret.msg.type = "input"
    /\ ret.msg.data = Str(10001)
    /\ sent[ret.arg] = <<ConnectedMsg, ErrorMsg("Invalid input")>>
    /\ \A p \in Pids : ptys[p].calls = <<>>
\* C13: destroy of an identity that has no session changes nothing and
\* returns normally; a destroy or a process exit sends nothing to a viewer
\* whose channel is no longer open (one that was notified before); the exit
\* event of a process that a destroy had killed, with no session registered
\* for its identity, sends nothing and kills nothing; no process is ever
\* sent kill twice.
DestroyIdempotent ==
    [][/\ \A u \in {Alice, Bob} :
            (ret'.op = "destroy" /\ ~HasActiveSession(Cur, u) /\ Logout(u))
            => /\ UNCHANGED <<sessions, ptys, readyState, sent, conn>>
               /\ ret'.val = Void
       /\ ret'.op \in {"destroy", "exit"} =>
            \A w \in Viewers : readyState[w] # "OPEN" =>
                sent'[w] = sent[w] /\ readyState'[w] = readyState[w]
       /\ (/\ ret'.op = "exit" /\ ret'.pre = "killed"
           /\ ~HasActiveSession(Cur, ptys[ret'.val].username))
            => /\ UNCHANGED <<sessions, readyState, sent, conn>>
               /\ ptys' = [ptys EXCEPT ![ret'.val].status = "exited",
                                       ![ret'.val].exitL = <<>>]
       /\ \A p \in 1..Len(ptys') : ptys'[p].kills <= 1]_vars

\* the exit event of a process that a destroy had killed has been handled
\* after its viewer's channel had closed: one kill, one "exit" message
ExitAfterDestroyAndClose ==
    /\ ret.op = "exit" /\ ret.pre = "killed" /\ ret.val = 1
    /\ sessions = <<>>
    /\ Len(ptys) = 1 /\ ptys[1].kills = 1 /\ ptys[1].status = "exited"
    /\ \E w \in Viewers :
          /\ conn[w].pty = 1
          /\ readyState[w] = "CLOSED"
          /\ sent[w] = <<ConnectedMsg, ExitMsg(0)>>
\* C14: when shutdownAll() returns, the Registry is empty, the process of
\* every session that was registered has been sent one kill and no longer
\* runs, and every attached viewer whose channel was open has been sent
\* "exit" and its channel is closing, whatever the sessions' viewer counts.
ShutdownDestroysEverySession ==
    [][ret'.op = "shutdownAll" =>
          /\ ret'.val = Void
          /\ sessions' = <<>>
          /\ \A i \in 1..Len(sessions) :
                /\ ptys'[sessions[i].pty].kills = 1
                /\ ptys'[sessions[i].pty].status = "killed"
                /\ \A k \in 1..Len(sessions[i].subscribers) :
                      LET w == sessions[i].subscribers[k] IN
                      readyState[w] = "OPEN" =>
                        /\ sent'[w] = Append(sent[w], ExitMsg(0))
                        /\ readyState'[w] = "CLOSING"]_vars

\* shutdown has destroyed two sessions, one with an open viewer and one
\* without a viewer
ShutdownDestroyedTwo ==
    /\ ret.op = "shutdownAll" /\ phase = "down"
    /\ sessions = <<>>
    /\ Len(ptys) = 2
    /\ \A p \in Pids : ptys[p].status = "killed" /\ ptys[p].kills = 1
    /\ ptys[1].username # ptys[2].username
    /\ readyState["tab1"] = "CLOSED"
    /\ sent["tab1"] = <<ConnectedMsg>>
    /\ readyState["tab2"] = "CLOSING"
    /\ sent["tab2"] = <<ConnectedMsg, ExitMsg(0)>>
\* C15: a chunk of output of a process is forwarded only to viewers that
\* authenticated as the identity the process is bound to, and a viewer's
\* input or resize message is applied only to a process bound to the
\* identity the viewer authenticated as, under every interleaving of the
\* connections of two identities.
SessionsIsolatedPerUser ==
    [][/\ ret'.op = "data" =>
            \A w \in Viewers : sent'[w] # sent[w] =>
                /\ conn[w].username = ptys[ret'.val].username
                /\ sent'[w] = Append(sent[w], DataMsg(ptys'[ret'.val].out[
                                                  Len(ptys'[ret'.val].out)]))
       /\ ret'.op = "message" =>
            /\ ptys[conn[ret'.arg].pty].username = conn[ret'.arg].username
            /\ \A q \in Pids : q # conn[ret'.arg].pty => ptys'[q] = ptys[q]
            /\ ptys'[conn[ret'.arg].pty].calls # ptys[conn[ret'.arg].pty].calls
       /\ \A w \in Viewers : conn'[w] # NoConn =>
            ptys'[conn'[w].pty].username = conn'[w].username]_vars

\* alice on tab1 and bob on tab2 are connected; alice's process has written
\* a chunk that only tab1 received, and a message of tab2 has reached only
\* bob's process
TrafficKeptApart ==
    /\ conn["tab1"].username = Alice /\ conn["tab2"].username = Bob
    /\ sent["tab1"] = <<ConnectedMsg, DataMsg("chunk1")>>
    /\ sent["tab2"] = <<ConnectedMsg>>
    /\ ptys[conn["tab1"].pty].out = <<"chunk1">>
    /\ ptys[conn["tab1"].pty].calls = <<>>
    /\ Len(ptys[conn["tab2"].pty].calls) = 1
    /\ ret.op = "message" /\ ret.arg = "tab2"
\* a step that is a getOrCreate call returning a session, right after a
\* getOrCreate call that found no session and created one
SecondOfTwoGetOrCreate ==
    /\ ret.op = "getOrCreate" /\ ret.pre = "none" /\ ret.val # Throw
    /\ ret'.op = "getOrCreate" /\ ret'.val # Throw

NormalizationCanonical ==
    /\ \A x \in RawInputs \cup RawUsernames : ~UsernameThrows(x) =>
          LET n == ValidateAndNormalizeUsername(x) IN
          /\ ~UsernameThrows(n)
          /\ ValidateAndNormalizeUsername(n) = n
    /\ ValidateAndNormalizeUsername(AliceRaw) = Alice
    /\ ValidateAndNormalizeUsername(<<" ", "A">>) = <<"a">>
    /\ \A i \in 1..Len(sessions) :
          ValidateAndNormalizeUsername(sessions[i].username)
             = sessions[i].username
    /\ \A u \in RawUsernames : ~UsernameThrows(u) =>
          LET n == ValidateAndNormalizeUsername(u) IN
          /\ \A f \in BOOLEAN, ok \in BOOLEAN :
                GetOrCreateSession(Cur, u, f, now, ok)
                   = GetOrCreateSession(Cur, n, f, now, ok)
          /\ HasActiveSession(Cur, u) = HasActiveSession(Cur, n)
          /\ GetSession(Cur, u) = GetSession(Cur, n)
          /\ \A w \in Viewers :
                /\ AttachToSession(Cur, u, w, now) = AttachToSession(Cur, n, w, now)
                /\ DetachFromSession(Cur, u, w) = DetachFromSession(Cur, n, w)
          /\ CleanupSession(Cur, u) = CleanupSession(Cur, n)

\* a session of alice with tab1 attached exists, and the raw input "Alice "
\* addresses it: getOrCreate returns it, attach adds tab2 to it, detach
\* removes tab1 from it, destroy removes it
RawInputAddressesSession ==
    /\ sessions # <<>> /\ sessions[1].username = Alice
    /\ sessions[1].subscribers = <<"tab1">>
    /\ GetOrCreateSession(Cur, AliceRaw, FALSE, now, TRUE).val = sessions[1].pty
    /\ GetSession(Cur, AliceRaw) = <<sessions[1]>>
    /\ AttachToSession(Cur, AliceRaw, "tab2", now).m.sessions[1].subscribers
          = <<"tab1", "tab2">>
    /\ DetachFromSession(Cur, AliceRaw, "tab1").m.sessions[1].subscribers = <<>>
    /\ CleanupSession(Cur, AliceRaw).sessions = <<>>
\* a non-empty string of at most 32 characters that is not "." or "..", has
\* no path separator and no ".." in it
SafeIdentity(k) ==
    /\ Len(k) >= 1 /\ Len(k) <= 32
    /\ k # <<".">> /\ k # <<".", ".">>
    /\ \A i \in 1..Len(k) : k[i] # "/" /\ k[i] # "\\"
    /\ \A i \in 1..(Len(k) - 1) : ~(k[i] = "." /\ k[i + 1] = ".")

\* C18: every Registry key, and every username a process was spawned for
\* (the one its credential directory is built from), is a safe identity in
\* normal form; a raw input whose trimmed, lower-cased form is not a safe
\* identity is rejected with an error by every Registry operation, with no
\* state changed.
RegistryKeysAreSafeIdentities ==
    /\ \A i \in 1..Len(sessions) :
          /\ SafeIdentity(sessions[i].username)
          /\ NormalizedForm(sessions[i].username) = sessions[i].username
    /\ \A p \in Pids :
          /\ SafeIdentity(ptys[p].username)
          /\ NormalizedForm(ptys[p].username) = ptys[p].username
    /\ \A x \in RawInputs \cup RawUsernames
                \cup {[i \in 1..32 |-> "a"], [i \in 1..33 |-> "a"]} :
          /\ ~UsernameThrows(x) => SafeIdentity(ValidateAndNormalizeUsername(x))
          /\ ~SafeIdentity(ToLowerCase(Trim(x))) =>
                /\ UsernameThrows(x)
                /\ \A f \in BOOLEAN, ok \in BOOLEAN :
                      GetOrCreateSession(Cur, x, f, now, ok)
                         = [m |-> Cur, val |-> Throw]
                /\ \A w \in Viewers :
                      /\ AttachToSession(Cur, x, w, now) = [m |-> Cur, val |-> Throw]
                      /\ DetachFromSession(Cur, x, w) = [m |-> Cur, val |-> Throw]
    /\ UsernameThrows([i \in 1..33 |-> "a"])
    /\ ~UsernameThrows([i \in 1..32 |-> "a"])

\* getOrCreate has just rejected ".." while a session of alice is registered
UnsafeInputRejected ==
    /\ ret.op = "getOrCreate" /\ ret.pre = "none" /\ ret.val = Throw
    /\ Len(sessions) = 1 /\ sessions[1].username = Alice
    /\ Len(ptys) = 1 /\ Live(1)
    /\ GetOrCreateSession(Cur, DotDot, TRUE, now, TRUE) = [m |-> Cur, val |-> Throw]
\* C19: the exit event of a process whose session is no longer in the
\* Registry leaves a session created afterwards for the same identity
\* untouched: it stays registered, its process is not killed, its viewers
\* are sent nothing and stay open.
StaleExitSparesNewerSession ==
    [][(/\ ret'.op = "exit"
        /\ HasActiveSession(Cur, ptys[ret'.val].username)
        /\ MapGet(sessions, ptys[ret'.val].username).pty # ret'.val)
       => LET newer == MapGet(sessions, ptys[ret'.val].username) IN
          /\ sessions' = sessions
          /\ ptys'[newer.pty] = ptys[newer.pty]
          /\ \A k \in 1..Len(newer.subscribers) :
                /\ sent'[newer.subscribers[k]] = sent[newer.subscribers[k]]
                /\ readyState'[newer.subscribers[k]]
                      = readyState[newer.subscribers[k]]]_vars
\* arr without w
Without(arr, w) == SelectSeq(arr, LAMBDA x : x # w)

\* C20: the close of a viewer changes nothing but that viewer's membership
\* and output pump: no session is added or removed, created and
\* lastActivity stay, no process changes status or receives a call, nothing
\* is sent, every other viewer stays attached with its pump and its
\* connection state, and output a process writes afterwards still reaches
\* every open viewer attached to its session. This holds also when the
\* closing viewer belonged to a session that has been replaced since.
ViewerCloseOnlyDetachesViewer ==
    [][/\ ret'.op = "close" =>
            \A w \in Viewers :
                readyState[w] = "CLOSING" /\ readyState'[w] = "CLOSED" =>
                /\ sent' = sent
                /\ conn' = conn
                /\ \A v \in Viewers \ {w} : readyState'[v] = readyState[v]
                /\ Len(sessions') = Len(sessions)
                /\ \A i \in 1..Len(sessions) :
                      sessions'[i] = [sessions[i] EXCEPT
                                         !.subscribers = Without(@, w)]
                /\ Len(ptys') = Len(ptys)
                /\ \A q \in 1..Len(ptys) :
                      ptys'[q] = [ptys[q] EXCEPT !.dataL = Without(@, w)]
       /\ ret'.op = "data" =>
            \A i \in 1..Len(sessions), v \in Viewers :
                (/\ sessions[i].pty = ret'.val
                 /\ ArrayIncludes(sessions[i].subscribers, v)
                 /\ readyState[v] = "OPEN")
                => /\ Len(sent'[v]) = Len(sent[v]) + 1
                   /\ sent'[v][Len(sent'[v])].type = "data"]_vars

\* a viewer of a replaced session has closed while the viewer of the newer
\* session is attached and open, and its process runs
StaleViewerClosed ==
    /\ ret.op = "close"
    /\ \E w \in Viewers, i \in 1..Len(sessions) :
          /\ readyState[w] = "CLOSED"
          /\ conn[w] # NoConn
          /\ sessions[i].username = conn[w].username
          /\ sessions[i].pty # conn[w].pty
          /\ ~ArrayIncludes(ptys[conn[w].pty].dataL, w)
          /\ ptys[sessions[i].pty].status = "running"
          /\ \E v \in Viewers \ {w} :
                /\ sessions[i].subscribers = <<v>>
                /\ ArrayIncludes(ptys[sessions[i].pty].dataL, v)
                /\ readyState[v] = "OPEN"
\* C21: once the channel of a viewer has closed, no handler registered for
\* that viewer remains on its process: neither its data handler nor its
\* exit handler.
ClosedViewerHasNoHandlers ==
    \A w \in Viewers :
        readyState[w] = "CLOSED" /\ conn[w] # NoConn =>
            /\ ~ArrayIncludes(ptys[conn[w].pty].dataL, w)
            /\ ~ArrayIncludes(ptys[conn[w].pty].exitL, w)
\* the data fields of the "data" messages sent to viewer w, in order
DataSent(snt, w) ==
    LET d == SelectSeq(snt[w], LAMBDA x : x.type = "data") IN
    [k \in 1..Len(d) |-> d[k].data]

\* TRUE when a is b with some elements left out
RECURSIVE IsSubsequence(_, _)
IsSubsequence(a, b) ==
    IF a = <<>> THEN TRUE
    ELSE IF b = <<>> THEN FALSE
    ELSE IF Head(a) = Head(b) THEN IsSubsequence(Tail(a), Tail(b))
    ELSE IsSubsequence(a, Tail(b))

\* C22: a chunk a process emits is sent as exactly one "data" message to
\* every viewer attached to its session whose channel is open, and to no one
\* else; for a viewer whose channel is not open the chunk is dropped: nothing
\* is sent, no channel changes state and the chunk is never sent later, so
\* the chunks a viewer has received are chunks of its process in emission
\* order, each once.
OutputForwardedWhileOpen ==
    [][ret'.op = "data" =>
        LET p == ret'.val
            chunk == ptys'[p].out[Len(ptys'[p].out)]
        IN /\ \A w \in Viewers :
                 sent'[w] =
                    IF /\ readyState[w] = "OPEN"
                       /\ \E i \in 1..Len(sessions) :
                             /\ sessions[i].pty = p
                             /\ ArrayIncludes(sessions[i].subscribers, w)
                    THEN Append(sent[w], DataMsg(chunk))
                    ELSE sent[w]
           /\ readyState' = readyState
           /\ sessions' = sessions
           /\ \A w \in Viewers :
                 conn[w] # NoConn =>
                    IsSubsequence(DataSent(sent', w), ptys'[conn[w].pty].out)]_vars

\* a viewer received the first chunk of its process; the second was emitted
\* after its channel had left the open state and was dropped
SecondChunkDropped ==
    /\ ret.op = "data"
    /\ \E w \in Viewers :
          /\ conn[w] # NoConn
          /\ ret.val = conn[w].pty
          /\ readyState[w] # "OPEN"
          /\ Len(ptys[conn[w].pty].out) = 2
          /\ DataSent(sent, w) = <<ptys[conn[w].pty].out[1]>>
          /\ sent[w][Len(sent[w])].type = "data"
\* C23: when a teardown (logout, forced replacement at connect, shutdown,
\* or the 'exit' event of a process of the identity) meets a process whose
\* kill throws, it completes all the same: kill was called and the process
\* is left as it was, every attached viewer whose channel is open is sent
\* "exit" and starts closing, and the entry leaves the Registry; a connect
\* whose spawn succeeds then registers a fresh session with a new running
\* process.
TeardownSurvivesKillFailure ==
    [][/\ (/\ \/ ret'.op \in {"destroy", "shutdownAll", "exit"}
              \/ (ret'.op = "connect" /\ ret'.arg = "valid")
           /\ HasActiveSession(Cur, Alice)
           /\ ptys[MapGet(sessions, Alice).pty].killThrows)
          => LET old == MapGet(sessions, Alice) IN
             /\ \A j \in 1..Len(sessions') : sessions'[j].pty # old.pty
             /\ ptys'[old.pty].kills = ptys[old.pty].kills + 1
             /\ \/ ret'.op = "exit" /\ ret'.val = old.pty
                \/ ptys'[old.pty].status = ptys[old.pty].status
             /\ \A k \in 1..Len(old.subscribers) :
                   readyState[old.subscribers[k]] = "OPEN" =>
                      /\ ExitCount(sent'[old.subscribers[k]]) = 1
                      /\ readyState'[old.subscribers[k]] = "CLOSING"
       /\ (ret'.op = "connect" /\ ret'.arg = "valid" /\ ret'.val # Throw)
          => /\ ret'.val = Len(ptys) + 1
             /\ HasActiveSession([sessions |-> sessions'], Alice)
             /\ MapGet(sessions', Alice).pty = ret'.val
             /\ ptys'[ret'.val].status = "running"]_vars

\* the kill of process 1 failed at a logout, which removed its session; a
\* later connect has registered a fresh session with process 2
FreshSessionAfterKillFailure ==
    /\ ret.op = "connect"
    /\ ret.pre = "none"
    /\ ret.val = 2
    /\ ptys[1].killThrows
    /\ ptys[1].kills = 1
    /\ ptys[1].status = "running"
    /\ HasActiveSession(Cur, Alice)
    /\ MapGet(sessions, Alice).pty = 2
\* C24: when the spawn fails at a connect, the failure reaches the caller
\* and no session is registered for the identity afterwards (also when the
\* connect had first torn down an older session); no process is added, and
\* the connecting viewer is attached to nothing: it is in no viewer set, has
\* no handler on any process and is sent nothing.
SpawnFailureRegistersNothing ==
    [][(ret'.op = "connect" /\ ret'.arg = "valid" /\ ret'.val = Throw) =>
        /\ ~HasActiveSession([sessions |-> sessions'], Alice)
        /\ Len(ptys') = Len(ptys)
        /\ \A w \in Viewers :
              readyState[w] = "CONNECTING" /\ readyState'[w] # "CONNECTING" =>
                 /\ readyState'[w] = "OPEN"
                 /\ conn'[w] = NoConn
                 /\ sent'[w] = <<>>
                 /\ \A i \in 1..Len(sessions') :
                       ~ArrayIncludes(sessions'[i].subscribers, w)
                 /\ \A p \in 1..Len(ptys') :
                       /\ ~ArrayIncludes(ptys'[p].dataL, w)
                       /\ ~ArrayIncludes(ptys'[p].exitL, w)]_vars

\* a connect found a session, tore it down, and its spawn failed: nothing
\* is registered
SpawnFailedAfterTeardown ==
    /\ ret.op = "connect"
    /\ ret.arg = "valid"
    /\ ret.pre = "session"
    /\ ret.val = Throw
    /\ sessions = <<>>
    /\ Len(ptys) = 1
    /\ ptys[1].status = "killed"
\* C25: a viewer message that fails validation (an input longer than the
\* maximum, a resize whose cols and rows are not both integers between 1 and
\* the maximum) is reported to the viewer that sent it, whose channel is
\* open, as one "error" message, and changes nothing else: the Registry, the
\* processes and every channel stay as they were.
ValidationErrorReported ==
    [][(/\ ret'.op = "message"
        /\ readyState[ret'.arg] = "OPEN"
        /\ \/ /\ ret'.msg.type = "input"
              /\ ret'.msg.data.kind = "string"
              /\ ret'.msg.data.n > MaxInputLength
           \/ /\ ret'.msg.type = "resize"
              /\ ~(InRange(ret'.msg.cols) /\ InRange(ret'.msg.rows)))
       => /\ sessions' = sessions
          /\ ptys' = ptys
          /\ readyState' = readyState
          /\ conn' = conn
          /\ \A w \in Viewers \ {ret'.arg} : sent'[w] = sent[w]
          /\ Len(sent'[ret'.arg]) = Len(sent[ret'.arg]) + 1
          /\ sent'[ret'.arg][Len(sent'[ret'.arg])].type = "error"]_vars
\* C26, as claimed: an input message whose data is a string of at most
\* 10,000 characters, the empty string included, is written to the viewer's
\* process unchanged, exactly once, and nothing is sent.
ValidInputWrittenOnce ==
    [][(/\ ret'.op = "message" /\ ret'.msg.type = "input"
        /\ ret'.msg.data.kind = "string"
        /\ ret'.msg.data.n <= MaxInputLength) =>
          /\ ptys' = [ptys EXCEPT ![ret'.val].calls =
                        Append(@, [op |-> "write", a |-> ret'.msg.data,
                                   b |-> Undefined])]
          /\ sent' = sent]_vars

\* C26, amended: an input message whose data is a string of 1 to 10,000
\* characters is written to the viewer's process unchanged, exactly once,
\* and nothing is sent; an input message whose data is the empty string is
\* ignored: nothing is written and nothing is sent.
NonEmptyValidInputWrittenOnce ==
    [][(/\ ret'.op = "message" /\ ret'.msg.type = "input"
        /\ ret'.msg.data.kind = "string"
        /\ ret'.msg.data.n <= MaxInputLength) =>
          /\ ptys' = IF ret'.msg.data.n >= 1
                     THEN [ptys EXCEPT ![ret'.val].calls =
                             Append(@, [op |-> "write", a |-> ret'.msg.data,
                                        b |-> Undefined])]
                     ELSE ptys
          /\ sent' = sent
          /\ sessions' = sessions
          /\ readyState' = readyState]_vars

\* an input of exactly 10,000 characters has been written to the process of
\* the viewer that sent it, and the viewer was sent nothing for it
LongestInputWritten ==
    /\ ret.op = "message" /\ ret.msg.type = "input"
    /\ ret.msg.data = Str(MaxInputLength)
    /\ ptys[ret.val].calls =
          <<[op |-> "write", a |-> Str(MaxInputLength), b |-> Undefined]>>
    /\ sent[ret.arg] = <<ConnectedMsg>>
\* C27: a viewer message that cannot be parsed or whose type is neither
\* "input" nor "resize" is ignored: no process receives a write or a resize,
\* nothing is sent to any viewer, the Registry is unchanged, and the channel
\* stays in its state with its connection registered.
UnknownMessageIgnored ==
    [][(ret'.op = "message" /\ ret'.msg.type \notin {"input", "resize"}) =>
          UNCHANGED <<sessions, ptys, readyState, sent, conn>>]_vars

\* a message that could not be parsed has been handled on an open channel:
\* the viewer holds only its "connected" message, its process has received
\* no call, and the channel is still open on its registered session
MalformedMessageHandled ==
    /\ ret.op = "message"
    /\ ret.msg.type = "malformed"
    /\ readyState[ret.arg] = "OPEN"
    /\ sent[ret.arg] = <<ConnectedMsg>>
    /\ ptys[ret.val].calls = <<>>
    /\ HasActiveSession(Cur, Alice)
    /\ MapGet(sessions, Alice).subscribers = <<ret.arg>>
\* the viewers that a step takes out of the connecting state
Connecting == {w \in Viewers : readyState[w] = "CONNECTING"
                                  /\ readyState'[w] # "CONNECTING"}

\* C28: a connection without a token or with an invalid or expired token
\* causes no Registry operation: sessions and processes are unchanged and
\* the viewer is attached to nothing; the viewer is sent one "error"
\* message and its channel starts closing; and a viewer without a registered
\* connection never holds anything but that one error message (no
\* "connected", no "data", no "exit").
UnauthenticatedConnectionRejected ==
    [][/\ (ret'.op = "connect" /\ ret'.arg # "valid") =>
             /\ sessions' = sessions
             /\ ptys' = ptys
             /\ conn' = conn
             /\ \A w \in Connecting :
                   /\ readyState'[w] = "CLOSING"
                   /\ sent'[w] = <<ErrorMsg(IF ret'.arg = "none"
                                            THEN "No authentication token"
                                            ELSE "Invalid or expired token")>>
             /\ \A w \in Viewers \ Connecting :
                   sent'[w] = sent[w] /\ readyState'[w] = readyState[w]
       /\ \A w \in Viewers :
             conn'[w] = NoConn =>
                /\ Len(sent'[w]) <= 1
                /\ \A k \in 1..Len(sent'[w]) : sent'[w][k].type = "error"
                /\ \A i \in 1..Len(sessions') :
                      ~ArrayIncludes(sessions'[i].subscribers, w)
                /\ \A p \in 1..Len(ptys') :
                      ~ArrayIncludes(ptys'[p].dataL, w)]_vars

\* a connection with an invalid token was rejected while a session of
\* another connection is registered, and that session is as it was
InvalidTokenRejected ==
    /\ ret.op = "connect"
    /\ ret.arg = "invalid"
    /\ \E w \in Viewers, v \in Viewers :
          /\ v # w
          /\ conn[w] = NoConn
          /\ readyState[w] = "CLOSING"
          /\ sent[w] = <<ErrorMsg("Invalid or expired token")>>
          /\ Len(sessions) = 1
          /\ sessions[1].subscribers = <<v>>
          /\ readyState[v] = "OPEN"
          /\ ptys[sessions[1].pty].status = "running"
\* the identities that have a session in the Registry
Registered == {u \in {Alice, Bob} : HasActiveSession(Cur, u)}

\* C29: hasActiveSession, getSession and getStats change nothing: the
\* Registry with every session's process, timestamps and viewers, the
\* processes and the channels are as before the call. getSession returns a
\* registered session or nothing; getStats reports as totalSessions the
\* number of identities registered, and for each entry its identity, its
\* timestamps and the number of viewers in its viewer set.
LookupsAreReadOnly ==
    [][ret'.op \in {"has", "get", "stats"} =>
        /\ UNCHANGED <<sessions, ptys, readyState, sent, conn>>
        /\ ret'.op = "stats" =>
              /\ ret'.val = Cardinality(Registered)
              /\ Len(GetStats(Cur).sessions) = Cardinality(Registered)
              /\ \A i \in 1..Len(sessions) :
                    LET e == GetStats(Cur).sessions[i] IN
                    /\ e.username = sessions[i].username
                    /\ e.created = sessions[i].created
                    /\ e.lastActivity = sessions[i].lastActivity
                    /\ e.subscribers =
                          Cardinality({w \in Viewers :
                              ArrayIncludes(sessions[i].subscribers, w)})
        /\ ret'.op = "get" =>
              \/ ret'.val \in {Throw, 0}
              \/ \E i \in 1..Len(sessions) : sessions[i].pty = ret'.val]_vars

\* getStats was called with one session registered, with two viewers,
\* after a destroyed session had left a process behind
StatsOfOneSession ==
    /\ ret.op = "stats"
    /\ ret.val = 1
    /\ Len(ptys) = 2
    /\ Len(sessions) = 1
    /\ Len(sessions[1].subscribers) = 2
\* C30: attachToSession for an identity without a session changes nothing:
\* it registers no session and spawns no process; detachFromSession for an
\* identity without a session, or for a viewer that is not in the session's
\* viewer set, changes nothing: every viewer stays in the set, in the same
\* order. Neither call throws for an identity that validates.
AttachDetachNoOpWhenAbsent ==
    [][/\ \A u \in {AliceRaw, Bob}, w \in Viewers :
             (ret'.op = "attach" /\ ~HasActiveSession(Cur, u) /\ Attach(u, w))
             => /\ UNCHANGED <<sessions, ptys, readyState, sent, conn>>
                /\ ret'.val = Void
       /\ \A u \in {AliceRaw, Bob}, w \in Viewers :
             (/\ ret'.op = "detach"
              /\ \/ ~HasActiveSession(Cur, u)
                 \/ ~ArrayIncludes(
                       MapGet(sessions,
                              ValidateAndNormalizeUsername(u)).subscribers, w)
              /\ Detach(u, w))
             => /\ UNCHANGED <<sessions, ptys, readyState, sent, conn>>
                /\ ret'.val = Void]_vars

\* detachFromSession has returned normally without removing anything: the
\* one registered session still has both viewers, in their order
DetachWithoutSessionDone ==
    /\ ret.op = "detach"
    /\ ret.val = Void
    /\ Len(sessions) = 1
    /\ sessions[1].subscribers = <<"tab2", "tab1">>
    /\ sessions[1].lastActivity < now
\* the session of process p is registered and has no viewer
Unwatched(p) ==
    \E i \in 1..Len(sessions) :
        sessions[i].pty = p /\ sessions[i].subscribers = <<>>

\* C31: while the reaper's timer keeps firing and the clock keeps moving,
\* every registered session without viewers eventually leaves the Registry
\* (a connect in between replaces it, which destroys it as well).
IdleSessionEventuallyDestroyed ==
    \A p \in 1..MaxSpawns :
        Unwatched(p) ~> (\A i \in 1..Len(sessions) : sessions[i].pty # p)

\* the reaper's timer has destroyed a session whose viewer had closed
ReaperDestroyedIdleSession ==
    /\ ret.op = "sweepIdle"
    /\ ret.val = 1
    /\ sessions = <<>>
    /\ \E w \in Viewers :
          /\ readyState[w] = "CLOSED"
          /\ conn[w] # NoConn
          /\ ptys[conn[w].pty].status = "killed"
          /\ ExitCount(sent[w]) = 0
\* C32: the reaper destroys a session only when more than the idle timeout
\* has elapsed since the session's last viewer detached, however long the
\* viewer had been attached before.
ReaperWaitsTimeoutAfterDetach ==
    [][(ret'.op = "sweepIdle" /\ ret'.val > 0) =>
          now - scn > SESSION_TIMEOUT_MS]_vars
NoProcessOrphaned ==
    [][/\ \A p \in 1..Len(ptys') :
             (ptys'[p].status = "running" /\ ptys'[p].kills = 0) =>
                \E i \in 1..Len(sessions') :
                    /\ sessions'[i].pty = p
                    /\ sessions'[i].username = ptys'[p].username
       /\ \A i \in TornDown :
             ptys'[sessions[i].pty].kills = ptys[sessions[i].pty].kills + 1]_vars

\* a destroy has removed the session of one user and killed its process
\* while the process of the other user runs in its registered session
OneKilledOneRegistered ==
    /\ ret.op = "destroy"
    /\ Len(ptys) = 2
    /\ Len(sessions) = 1
    /\ \E p \in Pids, q \in Pids :
          /\ ptys[p].status = "killed" /\ ptys[p].kills = 1
          /\ ptys[q].status = "running" /\ ptys[q].kills = 0
          /\ sessions[1].pty = q
          /\ ptys[p].username # ptys[q].username
\* C35: an "exit" message is the last message a viewer is sent: nothing
\* follows it, whatever output, rejected input, teardown or process exit
\* comes after.
ExitIsLastMessage ==
    \A w \in Viewers : \A k \in 1..Len(sent[w]) :
        sent[w][k].type = "exit" => k = Len(sent[w])

\* an oversized input of a viewer arrived after the viewer had been sent
\* "exit" and its channel had started closing: no error was sent after it
InputAfterExitUnanswered ==
    /\ ret.op = "message"
    /\ ret.msg = OversizedInput
    /\ readyState[ret.arg] = "CLOSING"
    /\ sent[ret.arg] # <<>>
    /\ sent[ret.arg][Len(sent[ret.arg])].type = "exit"
\* C36, as claimed: a transport error on a viewer is swallowed and the
\* viewer is detached by it: nothing is sent, no process changes, no other
\* viewer is affected, and after the error the viewer is in no viewer set.
TransportErrorDetachesViewer ==
    [][ret'.op = "error" =>
        /\ ptys' = ptys
        /\ sent' = sent
        /\ conn' = conn
        /\ Len(sessions') = Len(sessions)
        /\ \A i \in 1..Len(sessions') :
              ~ArrayIncludes(sessions'[i].subscribers, ret'.arg)]_vars

\* C36, amended: a transport error on a viewer is only logged: sessions,
\* processes and sent messages are unchanged and the viewer stays in its
\* viewer set while its channel closes; it is the close event that follows
\* which detaches it, so a viewer whose channel is closed is in no viewer
\* set.
TransportErrorOnlyLogged ==
    [][/\ ret'.op = "error" =>
             /\ UNCHANGED <<sessions, ptys, sent, conn>>
             /\ readyState' = [readyState EXCEPT ![ret'.arg] = "CLOSING"]
       /\ \A w \in Viewers : readyState'[w] = "CLOSED" =>
             \A i \in 1..Len(sessions') :
                 ~ArrayIncludes(sessions'[i].subscribers, w)]_vars

\* a transport error has been handled on a viewer that is still in the
\* viewer set of its running session
ErrorLeftViewerAttached ==
    /\ ret.op = "error"
    /\ readyState[ret.arg] = "CLOSING"
    /\ Len(sessions) = 1
    /\ sessions[1].subscribers = <<ret.arg>>
    /\ sessions[1].pty = ret.val
    /\ ptys[ret.val].status = "running"
\* the sockets of the page that are connecting or open
LiveSockets ==
    {s \in 1..Len(client.socks) : client.socks[s].readyState \in {"CONNECTING", "OPEN"}}

\* C37: the close that follows the server's exit message starts nothing:
\* the close event of a socket on which the server has sent exit and called
\* ws.close() arms no reconnect timer, no more than a close event with code
\* 1000 or 1001 does.
NoReconnectAfterSessionEnded ==
    [][(/\ ret'.op = "onclose"
        /\ \/ client.socks[ret'.val].code \in {1000, 1001}
           \/ /\ client.socks[ret'.val].srv = "exited"
              /\ client.socks[ret'.val].code = 1005) =>
            /\ client'.timers = client.timers
            /\ client'.reconnectAttempts = client.reconnectAttempts]_vars

\* C38: while the page is loaded at most one of its sockets is connecting
\* or open, and ws and window.terminalWS designate that socket.
ClientHoldsOneLiveSocket ==
    client.loaded =>
        /\ Cardinality(LiveSockets) <= 1
        /\ \A s \in LiveSockets : client.ws = s /\ client.terminalWS = s

\* C39: the page discards its stored authentication and reloads only on an
\* authentication error; the error for a rejected input is displayed and
\* leaves the stored authentication, the page and its sockets as they are.
OnlyAuthErrorClearsAuth ==
    [][ret'.op = "onmessage" =>
        /\ (client'.auth # client.auth \/ ~client'.loaded) =>
               ret'.arg = "token"
        /\ ret'.arg = "rejected" =>
               /\ client'.status = "Error"
               /\ client'.auth = client.auth
               /\ client'.ws = client.ws
               /\ client'.socks = client.socks]_vars

\* the timers of scheduleReconnect that are pending
PendingTimers == {h \in 1..Len(client.timers) : client.timers[h] # 0}

====
